---- MODULE Spec2Model ----
(***************************************************************************)
(* A model of the credit-report parsing pipeline: the bureau classifier    *)
(* (credit_bureau.py), the orchestrator and command line (parse_any.py),   *)
(* the three extractors (parse_transunion.py, parse_experian.py,           *)
(* parse_equifax.py) and the summary aggregator (normalize.py).            *)
(*                                                                         *)
(* Texts are modelled by what the code reads from them: which literal      *)
(* phrases they contain, how many lines they have, what each regex probe   *)
(* captures.  Optional values are <<>> (None) or <<v>>.                    *)
(***************************************************************************)
EXTENDS Integers, Sequences, FiniteSets, TLC

VARIABLES
  \* ---- parse_any.py: the command line and parse_report
  pc,         \* position of the run inside __main__ / parse_report
  argv,       \* the command line: "none" | "path" | "path_json"
  doc,        \* the document behind the path (what extract_pdf_text yields)
  full_text,  \* text_result["full_text"]
  cleaned,    \* clean_text(full_text)
  bureau,     \* classifier decision held by parse_report
  scores,     \* the score vector held by parse_report
  report,     \* the CreditReport being built
  error,      \* the exception raised by parse_report, if any
  exit_code,  \* process exit status
  stages,     \* the stages run so far, in order
  \* ---- the extractors' account parsers
  extractor,  \* which extractor is parsing: "transunion" | "experian" | "equifax"
  block,      \* the raw account block: its text fields and regex captures
  accounts,   \* the Account entities emitted so far
  \* ---- normalize.py: the aggregator
  npc,        \* "ready" before normalize(report), "done" after it returns
  nreport,    \* the CreditReport handed to normalize
  \* ---- the extractors' section finder
  span_of,    \* the extractor whose parse() makes the call
  span_text,  \* the cleaned text, line by line
  span_call,  \* which of parse()'s _find_span calls this is (1..4)
  span_result, \* the (start, end) pair returned, None before the call
  \* ---- the extractors' inquiry parsers
  inq_parser, \* which parser reads the section
  inq_section, \* the inquiry section, line by line
  inquiries,  \* the Inquiry list emitted for the section, None before the call
  \* ---- normalize.py: the amount helpers
  amt_fn, \* which helper is called: "parse_amount" | "latest_hist_amount"
  amt_in, \* the argument
  amt_out, \* the value returned, None before the call returns
  amt_again, \* parse_amount of the returned value written out, None before that
  amt_pc, \* "ready" | "returned" | "reparsed"
  \* ---- the extractors' date parser
  date_of, \* the extractor whose _parse_date is called
  date_in, \* the argument, word by word
  date_out, \* the date returned, None for null
  date_pc, \* "ready" | "returned"
  \* ---- one extractor's parse() on a whole text
  parse_of, \* the extractor whose parse() is called
  parse_text, \* the text, line by line
  parse_out, \* the report returned, None before the call
  \* ---- parse_report calls of several callers on several documents
  frames, \* each caller's call frame (the locals of parse_report)
  log, \* the cleaned texts parsed so far, each with what its call returned or raised
  ncalls, \* how many calls have been started
  \* ---- account sections (the block loop of each extractor)
  card_of, \* the extractor whose block loop runs
  card_section, \* the lines of the accounts section
  card_out, \* None, or Some([accounts, raw_blocks]) once the loop has returned
  \* ---- history tables (the table parser of each extractor)
  tbl_of, \* the extractor whose table parser runs
  tbl_block, \* the lines of the account block
  tbl_out, \* None, or Some(the rows returned)
  \* ---- cleaning pass (clean_text on the text extract_pdf_text builds)
  txt_pages, \* the page texts, each a sequence of characters
  txt_full, \* None, or Some(full_text)
  txt_cleaned, \* None, or Some(the text parse_report cleaned and scored)
  txt_again \* None, or Some(the text after the cleaning pass of the extractor)

pipeVars == <<pc, argv, doc, full_text, cleaned, bureau, scores, report, error,
              exit_code, stages>>
acctVars == <<extractor, block, accounts>>
sumVars == <<npc, nreport>>
spanVars == <<span_of, span_text, span_call, span_result>>
inqVars == <<inq_parser, inq_section, inquiries>>
amtVars == <<amt_fn, amt_in, amt_out, amt_again, amt_pc>>
dateVars == <<date_of, date_in, date_out, date_pc>>
parseVars == <<parse_of, parse_text, parse_out>>
sessVars == <<frames, log, ncalls>>
cardVars == <<card_of, card_section, card_out>>
tblVars == <<tbl_of, tbl_block, tbl_out>>
txtVars == <<txt_pages, txt_full, txt_cleaned, txt_again>>

\* What each part of the model leaves alone.
notPipe == <<acctVars, sumVars, spanVars, inqVars, amtVars, dateVars, parseVars, sessVars, cardVars, tblVars, txtVars>>
notAcct == <<pipeVars, sumVars, spanVars, inqVars, amtVars, dateVars, parseVars, sessVars, cardVars, tblVars, txtVars>>
notSum == <<pipeVars, acctVars, spanVars, inqVars, amtVars, dateVars, parseVars, sessVars, cardVars, tblVars, txtVars>>
notSpan == <<pipeVars, acctVars, sumVars, inqVars, amtVars, dateVars, parseVars, sessVars, cardVars, tblVars, txtVars>>
notInq == <<pipeVars, acctVars, sumVars, spanVars, amtVars, dateVars, parseVars, sessVars, cardVars, tblVars, txtVars>>
notAmt == <<pipeVars, acctVars, sumVars, spanVars, inqVars, dateVars, parseVars, sessVars, cardVars, tblVars, txtVars>>
notDate == <<pipeVars, acctVars, sumVars, spanVars, inqVars, amtVars, parseVars, sessVars, cardVars, tblVars, txtVars>>
notParse == <<pipeVars, acctVars, sumVars, spanVars, inqVars, amtVars, dateVars, sessVars, cardVars, tblVars, txtVars>>
notSess == <<pipeVars, acctVars, sumVars, spanVars, inqVars, amtVars, dateVars, parseVars, cardVars, tblVars, txtVars>>
notCard == <<pipeVars, acctVars, sumVars, spanVars, inqVars, amtVars, dateVars, parseVars, sessVars, tblVars, txtVars>>
notTbl == <<pipeVars, acctVars, sumVars, spanVars, inqVars, amtVars, dateVars, parseVars, sessVars, cardVars, txtVars>>
notTxt == <<pipeVars, acctVars, sumVars, spanVars, inqVars, amtVars, dateVars, parseVars, sessVars, cardVars, tblVars>>

None == <<>>
Some(v) == <<v>>

Max(a, b) == IF a >= b THEN a ELSE b
Min(a, b) == IF a <= b THEN a ELSE b

(***************************************************************************)
(* credit_bureau.py                                                        *)
(***************************************************************************)

Bureau == {"transunion", "experian", "equifax"}

\* The literal fragments a text may contain.  "description" scores only
\* together with "narrative code"; "glyph" stands for either of the two
\* glyph signatures tested on the un-lowercased text.
Fragments ==
  { "satisfactory accounts", "payment/remarks key",
    "satisfactory accounts / account information",
    "annualcreditreport.transunion.com",
    "annual credit report - experian", "balance histories", "account info",
    "glyph",
    "your credit report summary", "narrative code", "credit accounts",
    "description" }

\* The tested phrases that occur inside a fragment (Python's `in`).  "<w>" is
\* the word w between word boundaries (\bw\b), "^open" is a text that starts
\* with "open" (str.startswith).
Substrings(f) ==
  CASE f = "satisfactory accounts / account information" ->
         {f, "satisfactory accounts", "account info"}
    [] f = "current account" -> {f, "<current>"}
    [] f = "transferred" -> {f, "transfer"}
    [] f = "<sold>" -> {f, "sold"}
    [] f = "never late" -> {f, "late"}
    [] f = "personal loan" -> {f, "loan"}
    [] f = "^open" -> {f, "open"}
    [] f = "open account" -> {f, "open"}
    [] OTHER -> {f}

\* `phrase in t` for a text given by the fragments it is made of.
Contains(text, phrase) == \E f \in text.phrases : phrase \in Substrings(f)

\* `not text`: the empty string.
IsEmptyText(text) == text.nlines = 0 /\ text.phrases = {}

ZeroScores == [b \in Bureau |-> 0]

_scores(text) ==
  IF IsEmptyText(text) THEN ZeroScores
  ELSE
    [b \in Bureau |->
      CASE b = "transunion" ->
             (IF Contains(text, "satisfactory accounts") THEN 2 ELSE 0)
           + (IF Contains(text, "payment/remarks key") THEN 2 ELSE 0)
           + (IF Contains(text, "satisfactory accounts / account information") THEN 3 ELSE 0)
           + (IF Contains(text, "annualcreditreport.transunion.com") THEN 3 ELSE 0)
        [] b = "experian" ->
             (IF Contains(text, "annual credit report - experian") THEN 3 ELSE 0)
           + (IF Contains(text, "balance histories") THEN 2 ELSE 0)
           + (IF Contains(text, "account info") THEN 1 ELSE 0)
           + (IF Contains(text, "glyph") THEN 2 ELSE 0)
        [] b = "equifax" ->
             (IF Contains(text, "your credit report summary") THEN 3 ELSE 0)
           + (IF Contains(text, "narrative code") THEN 2 ELSE 0)
           + (IF Contains(text, "credit accounts") THEN 2 ELSE 0)
           + (IF Contains(text, "narrative code") /\ Contains(text, "description")
              THEN 1 ELSE 0)]

\* max(scores.values())
MaxScore(sc) == CHOOSE m \in {sc[b] : b \in Bureau} : \A b \in Bureau : sc[b] <= m

\* The fixed tie-break order of detect_bureau_with_scores.
priority == <<"transunion", "experian", "equifax">>

\* The orders in which scores.items() may be iterated.
IterOrders ==
  { o \in [1..3 -> Bureau] : \A b \in Bureau : \E i \in 1..3 : o[i] = b }

\* [b for b, s in scores.items() if s == best_score], iterated in `order`.
Candidates(sc, order) == SelectSeq(order, LAMBDA b : sc[b] = MaxScore(sc))

InSeq(x, s) == \E i \in DOMAIN s : s[i] = x

FirstInPriority_swapped(cands) ==
  IF InSeq("experian", cands) THEN "experian"
  ELSE IF InSeq("transunion", cands) THEN "transunion"
  ELSE IF InSeq("equifax", cands) THEN "equifax"
  ELSE "experian"

\* for b in priority: if b in candidates: return b
FirstInPriority(cands) ==
  LET hits == SelectSeq(priority, LAMBDA b : InSeq(b, cands))
  IN IF Len(hits) > 0 THEN hits[1] ELSE "experian"

detect_bureau_with_scores_first(text, order) ==
  LET sc == _scores(text)
  IN IF MaxScore(sc) = 0
     THEN [bureau |-> "experian", scores |-> sc]
     ELSE [bureau |-> Candidates(sc, order)[1], scores |-> sc]

detect_bureau_with_scores(text, order) ==
  LET sc == _scores(text)
  IN IF MaxScore(sc) = 0
     THEN [bureau |-> "experian", scores |-> sc]
     ELSE [bureau |-> FirstInPriority(Candidates(sc, order)), scores |-> sc]

detect_bureau(text, order) == detect_bureau_with_scores(text, order).bureau

(***************************************************************************)
(* parse_any.py: parse_report and the command-line entry point             *)
(***************************************************************************)

\* Lines of cleaned text quoted by UnknownFormatError: splitlines()[:20].
HeadLines == 20
\* How many lines beyond HeadLines the longest modelled document has.
MaxExtraLines == 2
\* How many "===PAGE i===" delimiters a modelled document has at most.
MaxPageBreaks == 1

USAGE_EXIT == 2
UNKNOWN_FORMAT_EXIT == 3

\* The document a path leads to: the fragments its text contains, its number
\* of content lines and of page delimiters, and the account blocks it holds
\* (as the account records an extractor reads from them).  A path that
\* cannot be read gives the empty text (both extractors' exceptions are
\* swallowed).
EmptyDoc == [phrases |-> {}, nlines |-> 0, nbreaks |-> 0, accounts |-> <<>>]
DocShapes ==
  { [nlines |-> 1, nbreaks |-> 0],
    [nlines |-> HeadLines + MaxExtraLines, nbreaks |-> MaxPageBreaks] }
OpenCard ==
  [kind |-> "revolving", status |-> "open", credit_limit |-> Some(1000),
   balance |-> Some(250), auto_keyword |-> FALSE, payment_history |-> <<>>]
CardWithoutLimit ==
  [kind |-> "revolving", status |-> "current", credit_limit |-> None,
   balance |-> Some(80), auto_keyword |-> FALSE, payment_history |-> <<>>]
AutoLoan ==
  [kind |-> "installment", status |-> "closed", credit_limit |-> None,
   balance |-> None, auto_keyword |-> TRUE, payment_history |-> <<>>]
DocAccounts == {<<OpenCard>>, <<CardWithoutLimit, AutoLoan>>}
Docs ==
  {EmptyDoc} \cup
  { [phrases |-> ph, nlines |-> sh.nlines, nbreaks |-> sh.nbreaks,
     accounts |-> <<>>] :
      ph \in SUBSET Fragments, sh \in DocShapes }
  \cup
  { [phrases |-> {f}, nlines |-> 1, nbreaks |-> 0, accounts |-> acc] :
      f \in Fragments, acc \in DocAccounts }

\* sys.argv: no argument; arguments but no path (only a flag or empty
\* strings); a path; a path followed by --json.
Argvs == {"none", "nopath", "path", "path_json"}

\* extract_pdf_text(pdf_path)["full_text"]: page texts joined by delimiters.
extract_pdf_text(a, d) == IF a \in {"path", "path_json"} THEN d ELSE EmptyDoc

\* clean_text as parse_report sees it: the page delimiters are replaced by a
\* line break; the content lines, numbered 1..n, and their phrases remain.
clean_text_doc(t) ==
  [phrases |-> t.phrases, nlines |-> t.nlines, nbreaks |-> 0,
   lines |-> [i \in 1..t.nlines |-> i], accounts |-> t.accounts]

\* "\n".join(cleaned.splitlines()[:20])
ErrorHead(c) == [i \in 1..Min(HeadLines, c.nlines) |-> c.lines[i]]

NoReport == None
NoError == None

\* The if/elif chain of parse_report: the extractor a decision selects.
ExtractorFor_experian(b) == "parse_experian"

ExtractorFor(b) ==
  CASE b = "transunion" -> "parse_transunion"
    [] b = "experian" -> "parse_experian"
    [] b = "equifax" -> "parse_equifax"
    [] OTHER -> "parse_experian"

\* parse_tu / parse_exp / parse_eq as parse_report uses them: the extractor
\* cleans the text it is given once more (text = clean_text(text)), stamps
\* its own bureau, returns the accounts of the text and leaves the summary
\* empty.
ExtractorBureau(x) ==
  CASE x = "parse_transunion" -> "transunion"
    [] x = "parse_experian" -> "experian"
    [] x = "parse_equifax" -> "equifax"
parse(x, text) ==
  LET t == clean_text_doc(text)
  IN [bureau |-> ExtractorBureau(x), accounts |-> t.accounts,
      inquiries |-> <<>>, public_records |-> <<>>, raw_chunks |-> <<>>,
      summary |-> None]

(***************************************************************************)
(* The extractors: free text to the kind and status enumerations           *)
(* (_map_kind, _map_status of parse_transunion.py, parse_experian.py,      *)
(* parse_equifax.py)                                                       *)
(***************************************************************************)

Kinds == {"revolving", "mortgage", "installment", "open", "lease", "student", "other"}
Statuses == {"open", "closed", "transferred", "sold", "paid", "collection",
             "chargeoff", "delinquent", "current"}

\* The pieces a type text (Account Type, Loan Type) may be made of; "misc" is
\* wording that matches no keyword.
KindFragments ==
  { "revolving", "mortgage", "installment", "lease", "student", "^open",
    "open account", "credit card", "conventional", "education", "auto",
    "personal loan", "loan", "home", "misc" }

\* The pieces a status, remark or narrative text may be made of.  "<sold>" and
\* "<current>" are the words on their own; "sold" is the letters inside a
\* longer word (as in "resold"); "misc" is wording that matches no keyword.
StatusFragments ==
  { "current account", "<current>", "paid", "closed", "transferred", "transfer",
    "<sold>", "sold", "collection", "charge-off", "chargeoff", "charge off",
    "30", "60", "90", "120", "late", "never late", "delinquent", "open",
    "pays as agreed", "misc" }

\* `kw in t` for a text field given by the fragments it is made of.
Has(t, kw) == \E f \in t : kw \in Substrings(f)
HasAny(t, kws) == \E k \in kws : Has(t, k)

ChargeoffWords == {"charge-off", "chargeoff", "charge off"}
DelinquentWords == {"30", "60", "90", "120", "late", "delinquent"}

EX_map_kind_raw(at) ==
  IF Has(at, "credit card") THEN "revolving"
  ELSE IF Has(at, "mortgage") \/ Has(at, "conventional") THEN "mortgage"
  ELSE IF Has(at, "education") \/ Has(at, "student") THEN "student"
  ELSE IF Has(at, "lease") THEN "lease"
  ELSE IF HasAny(at, {"auto", "installment", "personal loan", "loan"}) THEN "installment"
  ELSE IF Has(at, "^open") THEN "open"
  ELSE IF at = {} THEN "other" ELSE "unmapped"

TU_map_kind(at, lt) ==
  IF Has(at, "revolving") \/ Has(lt, "revolving") THEN "revolving"
  ELSE IF Has(at, "mortgage") \/ Has(lt, "mortgage") THEN "mortgage"
  ELSE IF Has(at, "installment") \/ Has(lt, "installment") THEN "installment"
  ELSE IF Has(at, "lease") \/ Has(lt, "lease") THEN "lease"
  ELSE IF Has(at, "student") \/ Has(lt, "student") THEN "student"
  ELSE IF Has(at, "^open") \/ Has(at, "open account") THEN "open"
  ELSE "other"

TU_map_status(ps, remarks) ==
  LET hay == ps \cup remarks
  IN IF Has(hay, "current account") \/ Has(ps, "<current>") THEN "current"
     ELSE IF Has(hay, "paid") /\ Has(hay, "closed") THEN "closed"
     ELSE IF Has(hay, "transferred") THEN "transferred"
     ELSE IF Has(hay, "<sold>") THEN "sold"
     ELSE IF Has(hay, "collection") THEN "collection"
     ELSE IF HasAny(hay, ChargeoffWords) THEN "chargeoff"
     ELSE IF HasAny(hay, DelinquentWords) THEN "delinquent"
     ELSE IF Has(hay, "closed") THEN "closed"
     ELSE "open"

EX_map_kind(at) ==
  IF Has(at, "credit card") THEN "revolving"
  ELSE IF Has(at, "mortgage") \/ Has(at, "conventional") THEN "mortgage"
  ELSE IF Has(at, "education") \/ Has(at, "student") THEN "student"
  ELSE IF Has(at, "lease") THEN "lease"
  ELSE IF HasAny(at, {"auto", "installment", "personal loan", "loan"}) THEN "installment"
  ELSE IF Has(at, "^open") THEN "open"
  ELSE "other"

EX_map_status(st) ==
  IF Has(st, "open") /\ Has(st, "never late") THEN "current"
  ELSE IF Has(st, "paid") /\ Has(st, "closed") THEN "closed"
  ELSE IF Has(st, "transferred") THEN "transferred"
  ELSE IF Has(st, "sold") THEN "sold"
  ELSE IF Has(st, "collection") THEN "collection"
  ELSE IF HasAny(st, ChargeoffWords) THEN "chargeoff"
  ELSE IF HasAny(st, DelinquentWords) THEN "delinquent"
  ELSE IF Has(st, "closed") THEN "closed"
  ELSE IF Has(st, "paid") THEN "paid"
  ELSE "open"

EQ_map_kind(t) ==
  IF Has(t, "revolving") \/ Has(t, "credit card") THEN "revolving"
  ELSE IF Has(t, "mortgage") \/ Has(t, "home") THEN "mortgage"
  ELSE IF Has(t, "student") \/ Has(t, "education") THEN "student"
  ELSE IF Has(t, "lease") THEN "lease"
  ELSE IF HasAny(t, {"installment", "auto", "loan"}) THEN "installment"
  ELSE IF Has(t, "^open") THEN "open"
  ELSE "other"

EQ_map_status(st, narratives) ==
  LET hay == st \cup narratives
  IN IF Has(hay, "pays as agreed") \/ (Has(st, "open") /\ Has(hay, "never late"))
     THEN "current"
     ELSE IF Has(hay, "paid") /\ Has(hay, "closed") THEN "closed"
     ELSE IF Has(hay, "transfer") /\ Has(hay, "sold") THEN "sold"
     ELSE IF Has(hay, "transfer") THEN "transferred"
     ELSE IF Has(hay, "sold") THEN "sold"
     ELSE IF Has(hay, "collection") THEN "collection"
     ELSE IF HasAny(hay, ChargeoffWords) THEN "chargeoff"
     ELSE IF HasAny(hay, DelinquentWords) THEN "delinquent"
     ELSE IF Has(hay, "closed") THEN "closed"
     ELSE IF Has(hay, "paid") THEN "paid"
     ELSE "open"

(***************************************************************************)
(* The extractors: monetary fields and their guardrails                    *)
(* (_to_float, clamp_limit, clamp_nonneg, _parse_accounts/_extract_accounts)*)
(***************************************************************************)

LIMIT_MIN == 100
LIMIT_MAX == 10000000

\* What a probe's capture group ([$\d,\.]+) may hold: digits that float()
\* accepts after "$" and "," are removed, or junk such as "$" or "1.2.3".
\* The character class admits no sign, so a captured number is never negative.
Amounts == {0, 5, 100, 15000, LIMIT_MAX, LIMIT_MAX + 1}
Junk == [num |-> FALSE, v |-> 0]
Num(n) == [num |-> TRUE, v |-> n]
RawCaptures == {Junk} \cup {Num(n) : n \in Amounts}

\* _to_float(s) for a capture s (None when the probe did not match).
_to_float(cap) ==
  IF cap = None THEN None
  ELSE IF cap[1].num THEN Some(cap[1].v) ELSE None

clamp_limit_nofloor(x) ==
  IF x = None THEN None
  ELSE IF x[1] > LIMIT_MAX THEN None
  ELSE x

clamp_limit(x) ==
  IF x = None THEN None
  ELSE IF x[1] < LIMIT_MIN \/ x[1] > LIMIT_MAX THEN None
  ELSE x

clamp_nonneg_sentinel(x) == IF x = None THEN Some(0 - 1) ELSE Some(Max(0, x[1]))

clamp_nonneg(x) == IF x = None THEN None ELSE Some(Max(0, x[1]))

\* The regex probes of each extractor's account parser, in source order.
TU_LimitProbes ==
  <<"cl_label", "cl_hist", "cl_line", "cl_next_line", "cl_broad", "cl_limit_word">>
TU_HighBalanceProbes == <<"hb_label", "hb_hist", "hb_line", "hb_next_line">>
MoneyProbes(x) ==
  CASE x = "transunion" ->
         {"monthly_payment", "balance", "past_due", "cl_window_max", "block_max"}
         \cup {TU_LimitProbes[i] : i \in DOMAIN TU_LimitProbes}
         \cup {TU_HighBalanceProbes[i] : i \in DOMAIN TU_HighBalanceProbes}
    [] x = "experian" -> {"monthly_payment", "credit_limit", "highest_balance", "balance"}
    [] x = "equifax" -> {"balance", "credit_limit", "high_credit"}

\* The free-text fields of each extractor's account block.
KindFields(x) ==
  CASE x = "transunion" -> {"account_type", "loan_type"}
    [] x = "experian" -> {"account_type"}
    [] x = "equifax" -> {"loan_type"}
StatusFields(x) ==
  CASE x = "transunion" -> {"pay_status", "remarks"}
    [] x = "experian" -> {"status_raw"}
    [] x = "equifax" -> {"status_raw", "narratives"}

\* find(pattern): the fragments of a text field (empty when the label is
\* absent: `x or ""`), and the capture of a monetary probe.
Field(b, fld) == {y.frag : y \in {z \in b.text : z.field = fld}}
Capture(b, probe) ==
  IF \E y \in b.money : y.probe = probe
  THEN Some((CHOOSE y \in b.money : y.probe = probe).raw)
  ELSE None

\* A chain of "if x is None: x = _to_float(next probe)".
RECURSIVE FirstParsed(_, _, _)
FirstParsed(b, probes, i) ==
  IF i > Len(probes) THEN None
  ELSE LET v == _to_float(Capture(b, probes[i]))
       IN IF v # None THEN v ELSE FirstParsed(b, probes, i + 1)

\* parse_transunion._parse_accounts, lines 247-293: the credit limit before
\* the guardrail.  "cl_window_max" is the largest figure within 1500
\* characters of the label, "block_max" the largest figure of the block.
TU_raw_credit_limit(b) ==
  LET balance == _to_float(Capture(b, "balance"))
      labelled == FirstParsed(b, TU_LimitProbes, 1)
      window == _to_float(Capture(b, "cl_window_max"))
      best == _to_float(Capture(b, "block_max"))
  IN IF labelled # None THEN labelled
     ELSE IF window # None THEN window
     ELSE IF best # None /\ best[1] >= 10000
             /\ (balance = None
                 \/ (2 * best[1] >= 3 * balance[1] /\ best[1] >= 1000))
          THEN best
     ELSE None

\* if credit_limit is None and high_balance is not None:
\*   credit_limit = clamp_limit(high_balance)
WithHighBalanceProxy_unclamped(limit, high) ==
  IF limit = None /\ high # None THEN high ELSE limit

WithHighBalanceProxy(limit, high) ==
  IF limit = None /\ high # None THEN clamp_limit(high) ELSE limit

TU_parse_account(b) ==
  LET remarks == Field(b, "remarks")
      high_balance == clamp_nonneg(FirstParsed(b, TU_HighBalanceProbes, 1))
      credit_limit == clamp_limit(TU_raw_credit_limit(b))
  IN [ kind |-> TU_map_kind(Field(b, "account_type"), Field(b, "loan_type")),
       status |-> TU_map_status(Field(b, "pay_status"), remarks),
       credit_limit |-> WithHighBalanceProxy(credit_limit, high_balance),
       high_balance |-> high_balance,
       balance |-> clamp_nonneg(_to_float(Capture(b, "balance"))),
       scheduled_payment |-> clamp_nonneg(_to_float(Capture(b, "monthly_payment"))),
       past_due |-> clamp_nonneg(_to_float(Capture(b, "past_due"))),
       remarks |-> remarks ]

EX_parse_account(b) ==
  LET highest_balance == clamp_nonneg(_to_float(Capture(b, "highest_balance")))
      credit_limit == clamp_limit(_to_float(Capture(b, "credit_limit")))
  IN [ kind |-> EX_map_kind(Field(b, "account_type")),
       status |-> EX_map_status(Field(b, "status_raw")),
       credit_limit |-> WithHighBalanceProxy(credit_limit, highest_balance),
       high_balance |-> highest_balance,
       balance |-> clamp_nonneg(_to_float(Capture(b, "balance"))),
       scheduled_payment |-> clamp_nonneg(_to_float(Capture(b, "monthly_payment"))),
       past_due |-> None,
       remarks |-> {} ]

EQ_parse_account(b) ==
  LET narratives == Field(b, "narratives")
      high_credit == clamp_nonneg(_to_float(Capture(b, "high_credit")))
      credit_limit == clamp_limit(_to_float(Capture(b, "credit_limit")))
  IN [ kind |-> EQ_map_kind(Field(b, "loan_type")),
       status |-> EQ_map_status(Field(b, "status_raw"), narratives),
       credit_limit |-> WithHighBalanceProxy(credit_limit, high_credit),
       high_balance |-> high_credit,
       balance |-> clamp_nonneg(_to_float(Capture(b, "balance"))),
       scheduled_payment |-> None,
       past_due |-> None,
       remarks |-> narratives ]

\* The modelled blocks: up to MaxTextFragments pieces of free text spread over
\* the text fields, or up to MaxMoneyProbes matching monetary probes.
MaxTextFragments == 2
MaxMoneyProbes == 2

RECURSIVE SubsetsUpTo(_, _)
SubsetsUpTo(S, n) ==
  IF n = 0 THEN {{}}
  ELSE LET smaller == SubsetsUpTo(S, n - 1)
       IN smaller \cup {T \cup {a} : T \in smaller, a \in S}

TaggedFragments(x) ==
  [field : KindFields(x), frag : KindFragments]
  \cup [field : StatusFields(x), frag : StatusFragments]
TaggedCaptures(x) == [probe : MoneyProbes(x), raw : RawCaptures]
OneCapturePerProbe(m) == \A y, z \in m : y.probe = z.probe => y = z

Blocks(x) ==
  { [text |-> t, money |-> {}] : t \in SubsetsUpTo(TaggedFragments(x), MaxTextFragments) }
  \cup
  { [text |-> {}, money |-> m] :
      m \in {mm \in SubsetsUpTo(TaggedCaptures(x), MaxMoneyProbes) : OneCapturePerProbe(mm)} }

AcctInit ==
  /\ extractor \in Bureau
  /\ block \in Blocks(extractor)
  /\ accounts = <<>>

AcctIdle == extractor = "none" /\ block = None /\ accounts = <<>>

\* parse_transunion._parse_accounts on a section holding this one block.
TU_parse_accounts ==
  /\ extractor = "transunion" /\ accounts = <<>>
  /\ accounts' = Append(accounts, TU_parse_account(block))
  /\ UNCHANGED <<extractor, block>>
  /\ UNCHANGED notAcct

\* parse_experian._parse_accounts on a section holding this one block.
EX_parse_accounts ==
  /\ extractor = "experian" /\ accounts = <<>>
  /\ accounts' = Append(accounts, EX_parse_account(block))
  /\ UNCHANGED <<extractor, block>>
  /\ UNCHANGED notAcct

\* parse_equifax._extract_accounts on a section holding this one block.
EQ_extract_accounts ==
  /\ extractor = "equifax" /\ accounts = <<>>
  /\ accounts' = Append(accounts, EQ_parse_account(block))
  /\ UNCHANGED <<extractor, block>>
  /\ UNCHANGED notAcct

AcctNext == TU_parse_accounts \/ EX_parse_accounts \/ EQ_extract_accounts

(***************************************************************************)
(* normalize.py: compute_summary and normalize                             *)
(*                                                                         *)
(* Amounts are whole dollars.  A utilization is held in tenths, so 2 is    *)
(* the float 0.2.  A payment-history row is [month, balance]; a month key  *)
(* is ranked by its place in MonthKeys, which lists the keys in the        *)
(* lexicographic order of their strings ("" is a row without a month).     *)
(***************************************************************************)

MonthKeys == <<"", "2024-01", "2024-02">>
KeyRank(m) == CHOOSE i \in DOMAIN MonthKeys : MonthKeys[i] = m

\* sorted(payment_history, key=month, reverse=True): stable, so rows with the
\* same key keep the order they were appended in.
RECURSIVE SortedByMonthDesc(_, _)
SortedByMonthDesc(rows, r) ==
  IF r = 0 THEN <<>>
  ELSE SelectSeq(rows, LAMBDA row : KeyRank(row.month) = r)
       \o SortedByMonthDesc(rows, r - 1)

RECURSIVE FirstNumericBalance(_, _)
FirstNumericBalance(rows, i) ==
  IF i > Len(rows) THEN None
  ELSE IF rows[i].balance # None THEN rows[i].balance
  ELSE FirstNumericBalance(rows, i + 1)

\* The balance of the most recent row, numeric or not.
_latest_history_balance_newest(a) ==
  IF a.payment_history = <<>> THEN None
  ELSE SortedByMonthDesc(a.payment_history, Len(MonthKeys))[1].balance

_latest_history_balance(a) ==
  IF a.payment_history = <<>> THEN None
  ELSE FirstNumericBalance(SortedByMonthDesc(a.payment_history, Len(MonthKeys)), 1)

_is_open(a) == a.status \in {"open", "current"}
_is_auto_loan(a) == a.kind = "installment" /\ a.auto_keyword

current_or_latest_balance(a) ==
  IF a.balance # None THEN a.balance[1]
  ELSE LET hb == _latest_history_balance(a)
       IN IF hb # None THEN hb[1] ELSE 0

\* sum(nums[i:])
RECURSIVE SumFrom(_, _)
SumFrom(nums, i) == IF i > Len(nums) THEN 0 ELSE nums[i] + SumFrom(nums, i + 1)

\* The quotients q for which Python's round((2q+1)/20, 1) is (q+1)/10: the
\* double nearest to the tie lies above it.  For the other q up to 40 it
\* lies below and the result is q/10.
TiesRoundedUp == {0, 4, 5, 6, 7, 10, 13, 15, 17, 18, 23, 24, 27, 28, 29, 33, 34,
                  37, 38, 39}

Round1_truncating(bal, lim) == (10 * bal) \div lim

\* round(bal / lim, 1), in tenths.
Round1(bal, lim) ==
  LET q == (10 * bal) \div lim
      r == (10 * bal) % lim
  IN IF 2 * r < lim THEN q
     ELSE IF 2 * r > lim THEN q + 1
     ELSE IF q \in TiesRoundedUp THEN q + 1 ELSE q

compute_summary(rep) ==
  LET open_revolving ==
        SelectSeq(rep.accounts,
                  LAMBDA a : /\ a.kind = "revolving" /\ _is_open(a)
                             /\ a.credit_limit # None /\ a.credit_limit[1] > 0)
      total_revolving_limit ==
        SumFrom([k \in DOMAIN open_revolving |-> open_revolving[k].credit_limit[1]], 1)
      total_revolving_balance ==
        SumFrom([k \in DOMAIN open_revolving |->
                   current_or_latest_balance(open_revolving[k])], 1)
  IN [ total_revolving_limit |-> total_revolving_limit,
       total_revolving_balance |-> total_revolving_balance,
       utilization |->
         IF total_revolving_limit > 0
         THEN Some(Round1(total_revolving_balance, total_revolving_limit))
         ELSE None,
       open_cards |-> Len(open_revolving),
       mortgages |->
         Len(SelectSeq(rep.accounts, LAMBDA a : a.kind = "mortgage")),
       student_loans |->
         Len(SelectSeq(rep.accounts, LAMBDA a : a.kind = "student")),
       auto_loans |-> Len(SelectSeq(rep.accounts, _is_auto_loan)) ]

\* The reports the aggregator is run on.
MaxAccounts == 2
MaxHistory == 2
SummaryKinds == {"revolving", "installment", "mortgage", "student"}
SummaryStatuses == {"open", "current", "closed"}
SummaryLimits == {None, Some(0), Some(1000)}
SummaryBalances == {None, Some(50), Some(80), Some(250)}
HistoryRows ==
  [month : {MonthKeys[i] : i \in DOMAIN MonthKeys} \ {""},
   balance : {None, Some(50), Some(80)}]
  \cup {[month |-> "", balance |-> Some(80)]}

SeqsUpTo(S, n) == UNION {[1..k -> S] : k \in 0..n}

\* Accounts without history, every combination of the fields the aggregator
\* reads; and open revolving accounts with a history.
PlainAccounts ==
  [kind : SummaryKinds, status : SummaryStatuses, credit_limit : SummaryLimits,
   balance : SummaryBalances, auto_keyword : BOOLEAN, payment_history : {<<>>}]
HistoryAccounts ==
  [kind : {"revolving"}, status : {"open"}, credit_limit : {Some(1000)},
   balance : {None, Some(250)}, auto_keyword : {FALSE},
   payment_history : SeqsUpTo(HistoryRows, MaxHistory) \ {<<>>}]
Reports ==
  [bureau : {"experian"},
   accounts : SeqsUpTo(PlainAccounts, MaxAccounts)
              \cup SeqsUpTo(HistoryAccounts, MaxAccounts - 1),
   inquiries : {<<"inquiry">>}, public_records : {<<>>},
   raw_chunks : {<<"chunk">>}, summary : {None}]

SumInit == npc = "ready" /\ nreport \in Reports
SumIdle ==
  /\ npc = "off"
  /\ nreport = [bureau |-> "experian", accounts |-> <<>>, inquiries |-> <<>>,
                public_records |-> <<>>, raw_chunks |-> <<>>, summary |-> None]

\* The accounts as compute_summary leaves them.  It reads them only; the one
\* place where it orders rows, _latest_history_balance (run for a qualifying
\* account without balance), does so with sorted(), which builds a new list
\* and leaves account.payment_history in the order the rows were appended.
accounts_after_summary_sortedinplace(accts) ==
  [k \in DOMAIN accts |->
     LET a == accts[k]
     IN IF /\ a.kind = "revolving" /\ _is_open(a)
           /\ a.credit_limit # None /\ a.credit_limit[1] > 0
           /\ a.balance = None /\ a.payment_history # <<>>
        THEN [a EXCEPT !.payment_history = SortedByMonthDesc(@, Len(MonthKeys))]
        ELSE a]

accounts_after_summary(accts) == [k \in DOMAIN accts |-> accts[k]]

\* normalize(report): report.summary = compute_summary(report).
normalize ==
  /\ npc = "ready"
  /\ nreport' = [nreport EXCEPT !.accounts = accounts_after_summary(@),
                                !.summary = Some(compute_summary(nreport))]
  /\ npc' = "done"
  /\ UNCHANGED notSum

SumNext == normalize

(***************************************************************************)
(* _find_span (the same function in the three extractors)                  *)
(*                                                                         *)
(* The text is its lines: "" is a blank line, "x" a line of other text and *)
(* a heading's name a line holding exactly that heading.  Offsets are      *)
(* character offsets into "\n".join(lines).                                *)
(***************************************************************************)

\* The headings parse() looks for, in the order of its _find_span calls: call
\* k starts at heading k and ends at the headings after it.
Anchors(x) ==
  CASE x = "transunion" -> <<"ACCOUNTS", "INQUIRIES", "PROMO", "REVIEW">>
    [] x = "experian" -> <<"ACCOUNTS", "PUBLIC", "HARD", "SOFT">>
    [] x = "equifax" -> <<"SUMMARY", "PERSONAL", "ACCOUNTS", "INQUIRIES">>

\* ^\s*Heading\s*$ everywhere but Experian's ^\s*Hard\s+Inquiries\b.*$ and
\* ^\s*Soft\s+Inquiries\b.*$, whose match stops at the end of the line.
EndsAtLineEnd(x, h) == x = "experian" /\ h \in {"HARD", "SOFT"}

LineLength(l) == IF l = "" THEN 0 ELSE IF l = "x" THEN 1 ELSE 2
RECURSIVE LineStart(_, _)
LineStart(text, i) ==
  IF i = 1 THEN 0 ELSE LineStart(text, i - 1) + LineLength(text[i - 1]) + 1
TextLen(text) == LineStart(text, Len(text) + 1) - 1

\* pat.search(text, pos): the leftmost match.  ^ needs a line start at or
\* after pos; the leading \s* swallows blank lines before the heading; the
\* trailing \s*$ swallows the blank lines after it and stops before the last
\* newline of that run, or at the end of the text.
Search(x, text, h, pos) ==
  LET n == Len(text)
      hits == {j \in 1..n : text[j] = h /\ LineStart(text, j) >= pos}
  IN IF hits = {} THEN None
     ELSE
       LET j == CHOOSE m \in hits : \A o \in hits : m <= o
           k == CHOOSE m \in 1..j :
                  /\ LineStart(text, m) >= pos
                  /\ \A o \in m..(j - 1) : text[o] = ""
                  /\ \A q \in 1..(m - 1) :
                       LineStart(text, q) < pos \/ \E o \in q..(j - 1) : text[o] # ""
           last == CHOOSE m \in j..n :
                     /\ \A o \in (j + 1)..m : text[o] = ""
                     /\ m = n \/ text[m + 1] # ""
       IN Some([start |-> LineStart(text, k),
                end |-> IF EndsAtLineEnd(x, h)
                        THEN LineStart(text, j) + LineLength(text[j])
                        ELSE IF last = n THEN TextLen(text)
                        ELSE LineStart(text, last + 1) - 1])

NOT_FOUND == -1

\* for pat in end_pats: m2 = pat.search(text, start); if m2: end = m2.start()
RECURSIVE EndOfSpan_last(_, _, _, _, _, _)
EndOfSpan_last(x, text, ends, i, start, end) ==
  IF i > Len(ends) THEN end
  ELSE LET m2 == Search(x, text, ends[i], start)
       IN EndOfSpan_last(x, text, ends, i + 1, start,
                         IF m2 # None THEN m2[1].start ELSE end)

\* for pat in end_pats: m2 = pat.search(text, start); if m2: end = min(end, m2.start())
RECURSIVE EndOfSpan(_, _, _, _, _, _)
EndOfSpan(x, text, ends, i, start, end) ==
  IF i > Len(ends) THEN end
  ELSE LET m2 == Search(x, text, ends[i], start)
       IN EndOfSpan(x, text, ends, i + 1, start,
                    IF m2 # None THEN Min(end, m2[1].start) ELSE end)

_find_span(x, text, start_pat, end_pats) ==
  LET m == Search(x, text, start_pat, 0)
  IN IF m = None THEN <<NOT_FOUND, NOT_FOUND>>
     ELSE <<m[1].end, EndOfSpan(x, text, end_pats, 1, m[1].end, TextLen(text))>>

MaxSpanLines == 4
StartAnchor(x, k) == Anchors(x)[k]
EndAnchors(x, k) == SubSeq(Anchors(x), k + 1, Len(Anchors(x)))
SpanLines(x) == {"", "x"} \cup {Anchors(x)[k] : k \in DOMAIN Anchors(x)}
SpanTexts(x) == UNION {[1..n -> SpanLines(x)] : n \in 1..MaxSpanLines}

SpanInit ==
  /\ span_of \in Bureau
  /\ span_text \in SpanTexts(span_of)
  /\ span_call \in DOMAIN Anchors(span_of)
  /\ span_result = None
SpanIdle ==
  span_of = "transunion" /\ span_text = <<"">> /\ span_call = 1 /\ span_result = None

\* One of parse()'s calls: s, e = _find_span(text, HDR_k, [HDR_k+1, ...]).
find_span ==
  /\ span_result = None
  /\ span_result' = Some(_find_span(span_of, span_text,
                                    StartAnchor(span_of, span_call),
                                    EndAnchors(span_of, span_call)))
  /\ UNCHANGED <<span_of, span_text, span_call>>
  /\ UNCHANGED notSpan

SpanNext == find_span

(***************************************************************************)
(* The extractors' inquiry parsers                                         *)
(*                                                                         *)
(* A section is its lines, each one of six shapes:                         *)
(*   "blank"      an empty line                                            *)
(*   "name"       "ACME BANK"                                              *)
(*   "name_date"  "ACME BANK 01/15/2024"                                   *)
(*   "date"       "01/15/2024"                                             *)
(*   "baddate"    "13/45/2024", a date token no format parses              *)
(*   "header"     "About this list", which the fallback skips as help text *)
(* A line of a whole document (see parse below) is its own text.           *)
(* No shape carries the "Inquiry Date:" label without a date that DATE_PAT *)
(* matches first, so the label branches are never the ones that emit.      *)
(***************************************************************************)

LineShapes == {"blank", "name", "name_date", "date", "baddate", "header"}

\* ln.strip()
LineText(l) ==
  CASE l = "blank" -> ""
    [] l = "name" -> "ACME BANK"
    [] l = "name_date" -> "ACME BANK 01/15/2024"
    [] l = "date" -> "01/15/2024"
    [] l = "baddate" -> "13/45/2024"
    [] l = "header" -> "About this list"
    [] OTHER -> l
\* DATE_PAT.search(ln)
HasDateToken(l) ==
  l \in {"name_date", "date", "baddate", "ALPHA 01/15/2024", "BETA 02/20/2024"}
\* _parse_date(m.group(1))
ParsedDate(l) ==
  IF l \in {"name_date", "date", "ALPHA 01/15/2024"} THEN Some("2024-01-15")
  ELSE IF l = "BETA 02/20/2024" THEN Some("2024-02-20")
  ELSE None
\* ln[: m.start()].strip(" -:")
NamePart(l) ==
  CASE l = "name_date" -> "ACME BANK"
    [] l = "ALPHA 01/15/2024" -> "ALPHA"
    [] l = "BETA 02/20/2024" -> "BETA"
    [] OTHER -> ""
Inquiry(name, kind, dt) == [name |-> name, kind |-> kind, date |-> dt[1]]

\* parse_transunion: the nearest non-empty line above line i, "" when none.
RECURSIVE PreviousNonEmpty(_, _)
PreviousNonEmpty(lines, j) ==
  IF j < 1 THEN ""
  ELSE IF LineText(lines[j]) # "" THEN LineText(lines[j])
  ELSE PreviousNonEmpty(lines, j - 1)

RECURSIVE TU_inquiry_loop(_, _, _)
TU_inquiry_loop(lines, kind, i) ==
  IF i > Len(lines) THEN <<>>
  ELSE
    LET ln == lines[i]
        name == IF NamePart(ln) # "" THEN NamePart(ln)
                ELSE PreviousNonEmpty(lines, i - 1)
        here == IF HasDateToken(ln) /\ name # "" /\ ParsedDate(ln) # None
                THEN <<Inquiry(name, kind, ParsedDate(ln))>> ELSE <<>>
    IN here \o TU_inquiry_loop(lines, kind, i + 1)

AllBlank(lines) == \A i \in DOMAIN lines : lines[i] = "blank"

TU_parse_inquiries_of(lines, kind) ==
  IF AllBlank(lines) THEN <<>> ELSE TU_inquiry_loop(lines, kind, 1)

\* parse_equifax: the name is what precedes the date on the same line.
RECURSIVE EQ_inquiry_loop(_, _)
EQ_inquiry_loop(lines, i) ==
  IF i > Len(lines) THEN <<>>
  ELSE
    LET ln == lines[i]
        here == IF /\ ln # "blank" /\ HasDateToken(ln)
                   /\ NamePart(ln) # "" /\ ParsedDate(ln) # None
                THEN <<Inquiry(NamePart(ln), "hard", ParsedDate(ln))>> ELSE <<>>
    IN here \o EQ_inquiry_loop(lines, i + 1)

EQ_parse_inquiries_of(lines) ==
  IF AllBlank(lines) THEN <<>> ELSE EQ_inquiry_loop(lines, 1)

\* parse_experian, first pass: the name is what precedes the date, else the
\* whole line above (blank or not).
RECURSIVE EX_inquiry_loop(_, _, _)
EX_inquiry_loop(lines, kind, i) ==
  IF i > Len(lines) THEN <<>>
  ELSE
    LET ln == lines[i]
        name == IF NamePart(ln) # "" THEN NamePart(ln)
                ELSE IF i > 1 THEN LineText(lines[i - 1]) ELSE ""
        here == IF /\ ln # "blank" /\ HasDateToken(ln)
                   /\ name # "" /\ ParsedDate(ln) # None
                THEN <<Inquiry(name, kind, ParsedDate(ln))>> ELSE <<>>
    IN here \o EX_inquiry_loop(lines, kind, i + 1)

\* The fallback's tests on a line.
SkippedAsHeader(l) == l = "header"
looks_like_name(l) == l \in {"name", "name_date", "header"}
FallbackWindow == 3
FallbackLookBack == 2

\* The first line among i, i+1, i+2 that holds a date token, 0 when none.
DateIndex(lines, i) ==
  LET ks == {k \in i..(i + FallbackWindow - 1) :
               k <= Len(lines) /\ HasDateToken(lines[k])}
  IN IF ks = {} THEN 0 ELSE CHOOSE k \in ks : \A o \in ks : k <= o

\* candidates: the line itself, the lines one and two above, the line after
\* the date, each when it looks like a name.
Candidates_of(lines, i, date_idx) ==
  (IF looks_like_name(lines[i]) THEN <<lines[i]>> ELSE <<>>)
  \o (IF i - 1 >= 1 /\ looks_like_name(lines[i - 1]) THEN <<lines[i - 1]>> ELSE <<>>)
  \o (IF i - FallbackLookBack >= 1 /\ looks_like_name(lines[i - FallbackLookBack])
      THEN <<lines[i - FallbackLookBack]>> ELSE <<>>)
  \o (IF date_idx + 1 <= Len(lines) /\ looks_like_name(lines[date_idx + 1])
      THEN <<lines[date_idx + 1]>> ELSE <<>>)

RECURSIVE EX_fallback_loop(_, _, _)
EX_fallback_loop(lines, kind, i) ==
  IF i > Len(lines) THEN <<>>
  ELSE
    LET date_idx == DateIndex(lines, i)
        cands == Candidates_of(lines, i, date_idx)
        name == IF cands = <<>> THEN "" ELSE LineText(cands[1])
        here == IF /\ ~SkippedAsHeader(lines[i]) /\ date_idx # 0
                   /\ name # "" /\ ParsedDate(lines[date_idx]) # None
                THEN <<Inquiry(name, kind, ParsedDate(lines[date_idx]))>> ELSE <<>>
    IN here \o EX_fallback_loop(lines, kind, i + 1)

EX_parse_inquiries_of(lines, kind) ==
  IF AllBlank(lines) THEN <<>>
  ELSE LET first == EX_inquiry_loop(lines, kind, 1)
       IN IF first = <<>> /\ kind = "hard"
          THEN EX_fallback_loop(lines, kind, 1) ELSE first

\* parse(): a hard section that holds a date but gave no inquiry gets one
\* placeholder, named after the first plain name line or "Hard Inquiry".
EX_hard_inquiries_of(lines) ==
  LET parsed == EX_parse_inquiries_of(lines, "hard")
      dated == {k \in DOMAIN lines : HasDateToken(lines[k])}
      named == {k \in DOMAIN lines : lines[k] = "name"}
  IN IF parsed = <<>> /\ ~AllBlank(lines) /\ dated # {}
     THEN LET first == CHOOSE k \in dated : \A o \in dated : k <= o
              name == IF named = {} THEN "Hard Inquiry"
                      ELSE LineText(lines[CHOOSE k \in named : \A o \in named : k <= o])
          IN IF ParsedDate(lines[first]) # None
             THEN <<Inquiry(name, "hard", ParsedDate(lines[first]))>>
             ELSE parsed
     ELSE parsed

MaxInquiryLines == 4
InquiryParsers == {"transunion", "experian_hard", "experian_soft", "equifax"}
InquirySections == UNION {[1..n -> LineShapes] : n \in 1..MaxInquiryLines}

InqInit ==
  /\ inq_parser \in InquiryParsers
  /\ inq_section \in InquirySections
  /\ inquiries = None
InqIdle == inq_parser = "transunion" /\ inq_section = <<"blank">> /\ inquiries = None

TU_parse_inquiries ==
  /\ inq_parser = "transunion" /\ inquiries = None
  /\ inquiries' = Some(TU_parse_inquiries_of(inq_section, "hard"))
  /\ UNCHANGED <<inq_parser, inq_section>>
  /\ UNCHANGED notInq

EX_parse_hard_inquiries ==
  /\ inq_parser = "experian_hard" /\ inquiries = None
  /\ inquiries' = Some(EX_hard_inquiries_of(inq_section))
  /\ UNCHANGED <<inq_parser, inq_section>>
  /\ UNCHANGED notInq

EX_parse_soft_inquiries ==
  /\ inq_parser = "experian_soft" /\ inquiries = None
  /\ inquiries' = Some(EX_parse_inquiries_of(inq_section, "soft"))
  /\ UNCHANGED <<inq_parser, inq_section>>
  /\ UNCHANGED notInq

EQ_parse_inquiries ==
  /\ inq_parser = "equifax" /\ inquiries = None
  /\ inquiries' = Some(EQ_parse_inquiries_of(inq_section))
  /\ UNCHANGED <<inq_parser, inq_section>>
  /\ UNCHANGED notInq

InqNext ==
  \/ TU_parse_inquiries
  \/ EX_parse_hard_inquiries
  \/ EX_parse_soft_inquiries
  \/ EQ_parse_inquiries

(***************************************************************************)
(* normalize.py: parse_amount and latest_hist_amount                       *)
(*                                                                         *)
(* A string is the sequence of its characters ("em-dash" stands for the    *)
(* one character U+2014).  A float is held exactly, as a whole number of   *)
(* Unit-ths: the numerals read here have only a few digits, which a double *)
(* tells apart.                                                            *)
(***************************************************************************)

MaxAmountLen == 4
RECURSIVE Pow10(_)
Pow10(n) == IF n = 0 THEN 1 ELSE 10 * Pow10(n - 1)
Unit == Pow10(MaxAmountLen)

DigitChars == <<"0", "1", "2", "3", "4", "5", "6", "7", "8", "9">>
IsDigit(c) == \E d \in DOMAIN DigitChars : DigitChars[d] = c
DigitVal(c) == (CHOOSE d \in DOMAIN DigitChars : DigitChars[d] = c) - 1

\* s.strip()
RECURSIVE LStrip(_)
LStrip(s) == IF s # <<>> /\ Head(s) = " " THEN LStrip(Tail(s)) ELSE s
RECURSIVE RStrip(_)
RStrip(s) ==
  IF s # <<>> /\ s[Len(s)] = " " THEN RStrip(SubSeq(s, 1, Len(s) - 1)) ELSE s
Strip(s) == RStrip(LStrip(s))

\* s.lower()
LowerChar(c) ==
  CASE c = "N" -> "n" [] c = "A" -> "a" [] c = "O" -> "o" [] c = "E" -> "e"
    [] OTHER -> c
Lower(s) == [i \in DOMAIN s |-> LowerChar(s[i])]

\* s.replace(c, "")
Without(s, c) == SelectSeq(s, LAMBDA x : x # c)

NONE_TOKENS ==
  {<<>>, <<"-">>, <<"em-dash">>, <<"n", "a">>, <<"n", "/", "a">>,
   <<"n", "o", "n", "e">>}

\* The last index of the run of digits that starts at i.
RECURSIVE DigitRunEnd(_, _)
DigitRunEnd(s, i) ==
  IF i + 1 <= Len(s) /\ IsDigit(s[i + 1]) THEN DigitRunEnd(s, i + 1) ELSE i

\* The number pattern without its fraction group: -?\d+
MatchNumberAt_nofraction(s, i) ==
  LET j == IF s[i] = "-" THEN i + 1 ELSE i
  IN IF j > Len(s) \/ ~IsDigit(s[j]) THEN 0 ELSE DigitRunEnd(s, j)

\* -?\d+(?:\.\d+)? tried at index i: the index its match ends at, 0 when it
\* does not match there.
MatchNumberAt(s, i) ==
  LET j == IF s[i] = "-" THEN i + 1 ELSE i
  IN IF j > Len(s) \/ ~IsDigit(s[j]) THEN 0
     ELSE LET e == DigitRunEnd(s, j)
          IN IF e + 2 <= Len(s) /\ s[e + 1] = "." /\ IsDigit(s[e + 2])
             THEN DigitRunEnd(s, e + 2) ELSE e

\* re.findall(r"-?\d+(?:\.\d+)?", s) from index i on.
RECURSIVE FindAllNumbers(_, _)
FindAllNumbers(s, i) ==
  IF i > Len(s) THEN <<>>
  ELSE LET e == MatchNumberAt(s, i)
       IN IF e = 0 THEN FindAllNumbers(s, i + 1)
          ELSE <<SubSeq(s, i, e)>> \o FindAllNumbers(s, e + 1)

\* The value of a run of digits read as a whole number.
RECURSIVE DigitsValue(_)
DigitsValue(ds) ==
  IF ds = <<>> THEN 0
  ELSE 10 * DigitsValue(SubSeq(ds, 1, Len(ds) - 1)) + DigitVal(ds[Len(ds)])

\* float(tok) for a token [-]digits[.digits], in Unit-ths.
ToFloat(tok) ==
  LET neg == tok[1] = "-"
      body == IF neg THEN Tail(tok) ELSE tok
      dots == {i \in DOMAIN body : body[i] = "."}
      dot == IF dots = {} THEN Len(body) + 1 ELSE CHOOSE i \in dots : TRUE
      whole == SubSeq(body, 1, dot - 1)
      frac == SubSeq(body, dot + 1, Len(body))
      mag == DigitsValue(whole) * Unit
             + (DigitsValue(frac) * Unit) \div Pow10(Len(frac))
  IN IF neg THEN 0 - mag ELSE mag

\* The arguments: None, a number, or a string.
NoneArg == [type |-> "none", v |-> 0, s |-> <<>>]
NumArg(n) == [type |-> "num", v |-> n, s |-> <<>>]
StrArg(s) == [type |-> "str", v |-> 0, s |-> s]

\* parse_amount with m[0] in place of m[-1].
parse_amount_first(val) ==
  IF val.type = "none" THEN None
  ELSE IF val.type = "num" THEN Some(val.v)
  ELSE LET s == Strip(val.s)
       IN IF Lower(s) \in NONE_TOKENS THEN None
          ELSE LET m == FindAllNumbers(Strip(Without(Without(s, "$"), ",")), 1)
               IN IF m = <<>> THEN None ELSE Some(ToFloat(m[1]))

parse_amount(val) ==
  IF val.type = "none" THEN None
  ELSE IF val.type = "num" THEN Some(val.v)
  ELSE LET s == Strip(val.s)
       IN IF Lower(s) \in NONE_TOKENS THEN None
          ELSE LET m == FindAllNumbers(Strip(Without(Without(s, "$"), ",")), 1)
               IN IF m = <<>> THEN None ELSE Some(ToFloat(m[Len(m)]))

\* \$?\s*([\d,]+(?:\.\d+)?) tried at index i: where its group starts and
\* ends, <<0, 0>> when it does not match there.
IsFigureChar(c) == IsDigit(c) \/ c = ","
RECURSIVE SkipSpaces(_, _)
SkipSpaces(s, i) == IF i <= Len(s) /\ s[i] = " " THEN SkipSpaces(s, i + 1) ELSE i
RECURSIVE FigureRunEnd(_, _)
FigureRunEnd(s, i) ==
  IF i + 1 <= Len(s) /\ IsFigureChar(s[i + 1]) THEN FigureRunEnd(s, i + 1) ELSE i
MatchFigureAt(s, i) ==
  LET j == SkipSpaces(s, IF s[i] = "$" THEN i + 1 ELSE i)
  IN IF j > Len(s) \/ ~IsFigureChar(s[j]) THEN <<0, 0>>
     ELSE LET e == FigureRunEnd(s, j)
          IN IF e + 2 <= Len(s) /\ s[e + 1] = "." /\ IsDigit(s[e + 2])
             THEN <<j, DigitRunEnd(s, e + 2)>> ELSE <<j, e>>

\* re.findall(r"\$?\s*([\d,]+(?:\.\d+)?)", text) from index i on.
RECURSIVE FindAllFigures(_, _)
FindAllFigures(s, i) ==
  IF i > Len(s) THEN <<>>
  ELSE LET g == MatchFigureAt(s, i)
       IN IF g = <<0, 0>> THEN FindAllFigures(s, i + 1)
          ELSE <<SubSeq(s, g[1], g[2])>> \o FindAllFigures(s, g[2] + 1)

latest_hist_amount(text) ==
  IF text.type = "none" \/ text.s = <<>> THEN None
  ELSE LET nums == FindAllFigures(text.s, 1)
       IN IF nums = <<>> THEN None ELSE parse_amount(StrArg(nums[Len(nums)]))

\* A float written out as a plain decimal numeral: sign, whole part, point,
\* fraction without trailing zeros (at least one digit), as repr writes it.
RECURSIVE DigitsOf(_)
DigitsOf(n) ==
  IF n < 10 THEN <<DigitChars[n + 1]>>
  ELSE DigitsOf(n \div 10) \o <<DigitChars[(n % 10) + 1]>>
RECURSIVE FractionDigits(_, _)
FractionDigits(f, width) ==
  IF width = 0 THEN <<>>
  ELSE FractionDigits(f \div 10, width - 1) \o <<DigitChars[(f % 10) + 1]>>
RECURSIVE DropTrailingZeros(_)
DropTrailingZeros(ds) ==
  IF Len(ds) > 1 /\ ds[Len(ds)] = "0"
  THEN DropTrailingZeros(SubSeq(ds, 1, Len(ds) - 1)) ELSE ds
PlainNumeral(v) ==
  LET mag == IF v < 0 THEN 0 - v ELSE v
  IN (IF v < 0 THEN <<"-">> ELSE <<>>)
     \o DigitsOf(mag \div Unit) \o <<".">>
     \o DropTrailingZeros(FractionDigits(mag % Unit, MaxAmountLen))

\* The arguments tried: every string of up to MaxAmountLen characters, some
\* longer ones, None, and a few numbers.
AmountChars == {"0", "1", "7", ".", "-", "$", ",", " ", "n", "a", "/", "em-dash"}
LongerStrings ==
  {<<"N", "/", "A">>, <<" ", "N", "o", "n", "e", " ">>, <<"n", "o", "n", "e">>,
   <<"$", "1", " ", "$", "7">>, <<"a", " ", "$", "1", " ", "$", "7", " ", "a">>,
   <<"$", "1", " ", "$", "7", " ", "a", ",", " ", "a">>,
   <<"$", "1", ",", "1", "0", "7", ".", "1", "0">>}
AmountStrings ==
  UNION {[1..n -> AmountChars] : n \in 0..MaxAmountLen} \cup LongerStrings
AmountArgs ==
  {NoneArg} \cup {StrArg(s) : s \in AmountStrings}
  \cup {NumArg((n * Unit) \div 2) : n \in {-14, 0, 1, 2, 35}}

AmtInit ==
  /\ amt_fn \in {"parse_amount", "latest_hist_amount"}
  /\ amt_in \in AmountArgs
  /\ amt_fn = "latest_hist_amount" => amt_in.type # "num"
  /\ amt_out = None /\ amt_again = None /\ amt_pc = "ready"
AmtIdle ==
  /\ amt_fn = "parse_amount" /\ amt_in = NoneArg
  /\ amt_out = None /\ amt_again = None /\ amt_pc = "off"

call_parse_amount ==
  /\ amt_pc = "ready" /\ amt_fn = "parse_amount"
  /\ amt_out' = parse_amount(amt_in)
  /\ amt_pc' = "returned"
  /\ UNCHANGED <<amt_fn, amt_in, amt_again>>
  /\ UNCHANGED notAmt

call_latest_hist_amount ==
  /\ amt_pc = "ready" /\ amt_fn = "latest_hist_amount"
  /\ amt_out' = latest_hist_amount(amt_in)
  /\ amt_pc' = "returned"
  /\ UNCHANGED <<amt_fn, amt_in, amt_again>>
  /\ UNCHANGED notAmt

\* The value parse_amount returned is written out and parsed again.
reparse_amount ==
  /\ amt_pc = "returned" /\ amt_fn = "parse_amount" /\ amt_out # None
  /\ amt_again' = parse_amount(StrArg(PlainNumeral(amt_out[1])))
  /\ amt_pc' = "reparsed"
  /\ UNCHANGED <<amt_fn, amt_in, amt_out>>
  /\ UNCHANGED notAmt

AmtNext == call_parse_amount \/ call_latest_hist_amount \/ reparse_amount

(***************************************************************************)
(* _parse_date in the three extractors                                     *)
(*                                                                         *)
(* The argument is its words, separated by single spaces; <<>> is the      *)
(* empty string.  A date is <<year, month, day>>.                          *)
(***************************************************************************)

DateWords ==
  {"Jan", "January", "Opened", "2024", "2023-05", "2023-13", "Jan-2024",
   "Jan/2024", "05/2024", "01/15/2024"}
IsLetterWord(w) == w \in {"Jan", "January", "Opened"}
\* The four digits a word starts with, 0 when it does not start with \d{4}.
LeadingYear(w) ==
  CASE w = "2024" -> 2024
    [] w \in {"2023-05", "2023-13"} -> 2023
    [] OTHER -> 0
\* The letters [A-Za-z]{3} takes right before the separator.
LastThreeLetters(w) ==
  CASE w = "Jan" -> "Jan" [] w = "January" -> "ary" [] w = "Opened" -> "ned"
\* strptime's %b and %B: the month number, 0 when the name is not one.
AbbreviatedMonth(name) == IF name = "Jan" THEN 1 ELSE 0
FullMonth(name) == IF name = "January" THEN 1 ELSE 0

\* datetime.strptime(s, f).date() over fmts, on the whole string.
AbsoluteFormats(s) ==
  CASE s = <<"01/15/2024">> -> Some(<<2024, 1, 15>>)
    [] s = <<"05/2024">> -> Some(<<2024, 5, 1>>)
    [] s = <<"2023-05">> -> Some(<<2023, 5, 1>>)
    [] s = <<"Jan", "2024">> -> Some(<<2024, 1, 1>>)
    [] s = <<"Jan-2024">> -> Some(<<2024, 1, 1>>)
    [] s = <<"2024">> -> Some(<<2024, 1, 1>>)
    [] OTHER -> None

\* What the month-and-year pattern matches at word i: the name and the year
\* it captures, None when it does not match there.  TransUnion's pattern is
\* ([A-Za-z]{3})[\s/-](\d{4}); the other two use ([A-Za-z]{3,9})\s+(\d{4}).
MonthYearAt(x, s, i) ==
  IF x = "transunion" /\ s[i] \in {"Jan-2024", "Jan/2024"}
  THEN Some([name |-> "Jan", year |-> 2024])
  ELSE IF IsLetterWord(s[i]) /\ i + 1 <= Len(s) /\ LeadingYear(s[i + 1]) # 0
  THEN Some([name |-> IF x = "transunion" THEN LastThreeLetters(s[i]) ELSE s[i],
             year |-> LeadingYear(s[i + 1])])
  ELSE None

\* re.search: the leftmost match.
FirstMonthYear(x, s) ==
  LET at == {i \in DOMAIN s : MonthYearAt(x, s, i) # None}
  IN IF at = {} THEN None
     ELSE MonthYearAt(x, s, CHOOSE i \in at : \A j \in at : i <= j)

\* The first recovery: strptime of "<name> <year>" with %b (and with %B in
\* Experian and Equifax).
MonthYearRecovery(x, s) ==
  LET m == FirstMonthYear(x, s)
  IN IF m = None THEN None
     ELSE IF AbbreviatedMonth(m[1].name) # 0
     THEN Some(<<m[1].year, AbbreviatedMonth(m[1].name), 1>>)
     ELSE IF x # "transunion" /\ FullMonth(m[1].name) # 0
     THEN Some(<<m[1].year, FullMonth(m[1].name), 1>>)
     ELSE None

\* The second recovery: the leftmost (\d{4})[-/](\d{2}), read with %Y-%m.
YearMonthRecovery(s) ==
  LET at == {i \in DOMAIN s : s[i] \in {"2023-05", "2023-13"}}
  IN IF at = {} THEN None
     ELSE IF s[CHOOSE i \in at : \A j \in at : i <= j] = "2023-05"
     THEN Some(<<2023, 5, 1>>)
     ELSE None

parse_date(x, s) ==
  IF s = <<>> THEN None
  ELSE IF AbsoluteFormats(s) # None THEN AbsoluteFormats(s)
  ELSE IF MonthYearRecovery(x, s) # None THEN MonthYearRecovery(x, s)
  ELSE YearMonthRecovery(s)

MaxDateWords == 3
DateStrings == UNION {[1..n -> DateWords] : n \in 0..MaxDateWords}

DateInit ==
  /\ date_of \in Bureau /\ date_in \in DateStrings
  /\ date_out = None /\ date_pc = "ready"
DateIdle ==
  date_of = "transunion" /\ date_in = <<>> /\ date_out = None /\ date_pc = "off"

TU_parse_date ==
  /\ date_pc = "ready" /\ date_of = "transunion"
  /\ date_out' = parse_date("transunion", date_in)
  /\ date_pc' = "returned"
  /\ UNCHANGED <<date_of, date_in>>
  /\ UNCHANGED notDate

EX_parse_date ==
  /\ date_pc = "ready" /\ date_of = "experian"
  /\ date_out' = parse_date("experian", date_in)
  /\ date_pc' = "returned"
  /\ UNCHANGED <<date_of, date_in>>
  /\ UNCHANGED notDate

EQ_parse_date ==
  /\ date_pc = "ready" /\ date_of = "equifax"
  /\ date_out' = parse_date("equifax", date_in)
  /\ date_pc' = "returned"
  /\ UNCHANGED <<date_of, date_in>>
  /\ UNCHANGED notDate

DateNext == TU_parse_date \/ EX_parse_date \/ EQ_parse_date

(***************************************************************************)
(* parse_any.py: the steps of parse_report and of the entry point          *)
(***************************************************************************)

PipeInit ==
  /\ pc = "main"
  /\ argv \in Argvs
  /\ doc \in Docs
  /\ (argv \in {"none", "nopath"} => doc = EmptyDoc)
  /\ full_text = None
  /\ cleaned = None
  /\ bureau = None
  /\ scores = None
  /\ report = NoReport
  /\ error = NoError
  /\ exit_code = None
  /\ stages = <<>>

\* __main__: the usage check.
MainUsage ==
  /\ pc = "main"
  /\ argv = "none"
  /\ pc' = "exited"
  /\ exit_code' = Some(USAGE_EXIT)
  /\ UNCHANGED <<argv, doc, full_text, cleaned, bureau, scores, report, error, stages>>
  /\ UNCHANGED notPipe

\* __main__: enter parse_report (directly or through parse_report_json).
MainCall ==
  /\ pc = "main"
  /\ argv # "none"
  /\ pc' = "extract"
  /\ UNCHANGED <<argv, doc, full_text, cleaned, bureau, scores, report, error,
                 exit_code, stages>>
  /\ UNCHANGED notPipe

\* text_result = extract_pdf_text(pdf_path)
ExtractText ==
  /\ pc = "extract"
  /\ full_text' = Some(extract_pdf_text(argv, doc))
  /\ stages' = Append(stages, "extract_pdf_text")
  /\ pc' = "clean"
  /\ UNCHANGED <<argv, doc, cleaned, bureau, scores, report, error, exit_code>>
  /\ UNCHANGED notPipe

\* cleaned = clean_text(full_text)
CleanText ==
  /\ pc = "clean"
  /\ cleaned' = Some(clean_text_doc(full_text[1]))
  /\ stages' = Append(stages, "clean_text")
  /\ pc' = "classify"
  /\ UNCHANGED <<argv, doc, full_text, bureau, scores, report, error, exit_code>>
  /\ UNCHANGED notPipe

\* bureau, scores = detect_bureau_with_scores(cleaned)
Classify ==
  /\ pc = "classify"
  /\ \E order \in IterOrders :
       LET r == detect_bureau_with_scores(cleaned[1], order)
       IN /\ bureau' = Some(r.bureau)
          /\ scores' = Some(r.scores)
  /\ stages' = Append(stages, "detect_bureau_with_scores")
  /\ pc' = "check"
  /\ UNCHANGED <<argv, doc, full_text, cleaned, report, error, exit_code>>
  /\ UNCHANGED notPipe

UnknownFormat_any(sc) == \E b \in Bureau : sc[b] = 0

\* The guard of parse_report: max(scores.values()) == 0.
UnknownFormat(sc) == MaxScore(sc) = 0

\* raise UnknownFormatError(first 20 lines)
RaiseUnknownFormat ==
  /\ pc = "check"
  /\ UnknownFormat(scores[1])
  /\ error' = Some([type |-> "UnknownFormatError", head |-> ErrorHead(cleaned[1])])
  /\ pc' = "raised"
  /\ UNCHANGED <<argv, doc, full_text, cleaned, bureau, scores, report,
                 exit_code, stages>>
  /\ UNCHANGED notPipe

\* report = parse_xx(cleaned)
Dispatch ==
  /\ pc = "check"
  /\ ~UnknownFormat(scores[1])
  /\ LET x == ExtractorFor(bureau[1])
     IN /\ report' = Some(parse(x, cleaned[1]))
        /\ stages' = Append(stages, x)
  /\ pc' = "stamp"
  /\ UNCHANGED <<argv, doc, full_text, cleaned, bureau, scores, error, exit_code>>
  /\ UNCHANGED notPipe

\* report.bureau = bureau
Stamp ==
  /\ pc = "stamp"
  /\ report' = Some([report[1] EXCEPT !.bureau = bureau[1]])
  /\ pc' = "normalize"
  /\ UNCHANGED <<argv, doc, full_text, cleaned, bureau, scores, error,
                 exit_code, stages>>
  /\ UNCHANGED notPipe

\* report = normalize(report)
Normalize ==
  /\ pc = "normalize"
  /\ report' = Some([report[1] EXCEPT !.summary = Some(compute_summary(report[1]))])
  /\ stages' = Append(stages, "normalize")
  /\ pc' = "returned"
  /\ UNCHANGED <<argv, doc, full_text, cleaned, bureau, scores, error, exit_code>>
  /\ UNCHANGED notPipe

\* __main__: the report is printed and the process ends normally.
MainPrint ==
  /\ pc = "returned"
  /\ exit_code' = Some(0)
  /\ pc' = "exited"
  /\ UNCHANGED <<argv, doc, full_text, cleaned, bureau, scores, report, error, stages>>
  /\ UNCHANGED notPipe

\* __main__: except UnknownFormatError: print, sys.exit(3)
MainExcept ==
  /\ pc = "raised"
  /\ exit_code' = Some(UNKNOWN_FORMAT_EXIT)
  /\ pc' = "exited"
  /\ UNCHANGED <<argv, doc, full_text, cleaned, bureau, scores, report, error, stages>>
  /\ UNCHANGED notPipe

PipeNext ==
  \/ MainUsage \/ MainCall \/ ExtractText \/ CleanText \/ Classify
  \/ RaiseUnknownFormat \/ Dispatch \/ Stamp \/ Normalize
  \/ MainPrint \/ MainExcept

(***************************************************************************)
(* parse() of parse_transunion.py and parse_experian.py on a whole text    *)
(*                                                                         *)
(* The text is its lines, as in _find_span: a heading's name is a line     *)
(* holding that heading, any other line is its own text.  clean_text       *)
(* leaves such a text as it is (no page delimiter, glyph or double space). *)
(***************************************************************************)

\* text[s:e].splitlines() for a span returned by _find_span ("" when the
\* section is absent).  A span starts at the end of a line and ends at the
\* start of a line or at the end of the text, so the slice is the line break
\* that ends the heading, which gives one empty line, and then whole lines.
Unwrapped(ls) == [j \in DOMAIN ls |-> ls[j][1]]
SectionLines(text, span) ==
  IF span[1] = NOT_FOUND \/ span[1] >= span[2] THEN <<>>
  ELSE <<"">> \o
       Unwrapped(SelectSeq([j \in DOMAIN text |->
                              IF /\ LineStart(text, j) > span[1]
                                 /\ LineStart(text, j) < span[2]
                                 /\ LineStart(text, j) + LineLength(text[j]) <= span[2]
                              THEN <<text[j]>> ELSE <<>>],
                           LAMBDA l : l # <<>>))
SectionOf(x, text, k) ==
  SectionLines(text, _find_span(x, text, StartAnchor(x, k), EndAnchors(x, k)))

\* The labelled lines of a TransUnion account block: the label a line
\* carries, the text captured after it (lower-cased, as _map_kind and
\* _map_status read it) and the characters of the amount captured after it.
ACCOUNT_INFO_HDR == "Account Information"
LineLabel(l) ==
  CASE l = "Account Type: Revolving" -> "account_type"
    [] l = "Pay Status: Current Account" -> "pay_status"
    [] l = "Balance: $1,109" -> "balance"
    [] l = "Credit Limit: $35,000" -> "credit_limit"
    [] l = "Balance: $250" -> "balance"
    [] l = "Balance: $." -> "balance"
    [] l = "Credit Limit: $9,000" -> "credit_limit"
    [] OTHER -> "none"
TextAfterLabel(l) ==
  CASE l = "Account Type: Revolving" -> "revolving"
    [] l = "Pay Status: Current Account" -> "current account"
AmountAfterLabel(l) ==
  CASE l = "Balance: $1,109" -> <<"$", "1", ",", "1", "0", "9">>
    [] l = "Credit Limit: $35,000" -> <<"$", "3", "5", ",", "0", "0", "0">>
    [] l = "Balance: $250" -> <<"$", "2", "5", "0">>
    [] l = "Balance: $." -> <<"$", ".">>
    [] l = "Credit Limit: $9,000" -> <<"$", "9", ",", "0", "0", "0">>

\* _to_float's reading of a capture that holds no ".": "," and "$" are
\* removed, and what is left must be digits.
RawCaptureOf_aswritten(chars) ==
  IF chars # <<>> /\ \A i \in DOMAIN chars : IsDigit(chars[i])
  THEN Num(DigitsValue(chars)) ELSE Junk

RawCaptureOf(chars) ==
  LET s2 == Strip(Without(Without(chars, ","), "$"))
  IN IF s2 # <<>> /\ \A i \in DOMAIN s2 : IsDigit(s2[i])
     THEN Num(DigitsValue(s2)) ELSE Junk

\* re.search(label pattern, block): the first line that carries the label.
FirstLabelled(lines, label) ==
  LET at == {j \in DOMAIN lines : LineLabel(lines[j]) = label}
  IN IF at = {} THEN None ELSE Some(lines[CHOOSE j \in at : \A o \in at : j <= o])

\* The whole-dollar figures a line holds ([\d,]+ runs read by _to_float).
FiguresOn(l) ==
  CASE l = "Balance: $1,109" -> {1109}
    [] l = "Credit Limit: $35,000" -> {35000}
    [] l = "ALPHA 01/15/2024" -> {1, 15, 2024}
    [] l = "BETA 02/20/2024" -> {2, 20, 2024}
    [] l = "Balance: $250" -> {250}
    [] l = "Credit Limit: $9,000" -> {9000}
    [] l = "Account Number: 1234" -> {1234}
    [] l = "2024-08 $120 $0 $120 OK" -> {2024, 8, 120, 0}
    [] l = "Jul 2024 $90 / $0 / $90 / 30" -> {2024, 90, 0, 30}
    [] l = "Foo 2024 $1 $0 $1 OK" -> {2024, 1, 0}
    [] l = "2024-06 n/a" -> {2024, 6}
    [] l = "2024-05 see Remarks" -> {2024, 5}
    [] OTHER -> {}
SetMax(S) == CHOOSE m \in S : \A o \in S : o <= m

\* What the probes of _parse_accounts capture in a block: the type and
\* status texts and the balance in the block itself, the limit in the
\* extended block.  Every limit pattern that needs only the label and an
\* amount on its line captures the same amount; the window and the block
\* maxima are taken over the extended block.
TU_block_of(blk, blk_ext) ==
  LET at == FirstLabelled(blk, "account_type")
      ps == FirstLabelled(blk, "pay_status")
      bal == FirstLabelled(blk, "balance")
      lim == FirstLabelled(blk_ext, "credit_limit")
      limAt == CHOOSE j \in DOMAIN blk_ext : LineLabel(blk_ext[j]) = "credit_limit"
      window == UNION {FiguresOn(blk_ext[j]) : j \in {o \in DOMAIN blk_ext : o >= limAt}}
      all == UNION {FiguresOn(blk_ext[j]) : j \in DOMAIN blk_ext}
  IN [ text |->
         (IF at = None THEN {}
          ELSE {[field |-> "account_type", frag |-> TextAfterLabel(at[1])]})
         \cup
         (IF ps = None THEN {}
          ELSE {[field |-> "pay_status", frag |-> TextAfterLabel(ps[1])]}),
       money |->
         (IF bal = None THEN {}
          ELSE {[probe |-> "balance", raw |-> RawCaptureOf(AmountAfterLabel(bal[1]))]})
         \cup
         (IF lim = None THEN {}
          ELSE {[probe |-> p, raw |-> RawCaptureOf(AmountAfterLabel(lim[1]))] :
                  p \in {"cl_label", "cl_line", "cl_broad", "cl_limit_word"}}
               \cup {[probe |-> "cl_window_max", raw |-> Num(SetMax(window))]})
         \cup
         (IF all = {} THEN {} ELSE {[probe |-> "block_max", raw |-> Num(SetMax(all))]}) ]

\* start_line = max(0, i - 3); extended_end = min(end_line + 20, len(lines))
BlockLookBack == 3
BlockExtension == 20

\* _parse_accounts(section): one block, and one Account, for every
\* "Account Information" line.
RECURSIVE TU_accounts_loop(_, _)
TU_accounts_loop(lines, i) ==
  IF i > Len(lines) THEN <<>>
  ELSE IF lines[i] # ACCOUNT_INFO_HDR THEN TU_accounts_loop(lines, i + 1)
  ELSE
    LET later == {j \in (i + 1)..Len(lines) : lines[j] = ACCOUNT_INFO_HDR}
        start_line == Max(1, i - BlockLookBack)
        end_line == IF later = {} THEN Len(lines)
                    ELSE (CHOOSE j \in later : \A o \in later : j <= o) - 1
        extended_end == Min(end_line + BlockExtension, Len(lines))
    IN <<TU_parse_account(TU_block_of(SubSeq(lines, start_line, end_line),
                                      SubSeq(lines, start_line, extended_end)))>>
       \o TU_accounts_loop(lines, i + 1)
TU_parse_accounts_of(lines) == TU_accounts_loop(lines, 1)

\* A line as the inquiry parsers see it.
AsInquiryLines(lines) == [j \in DOMAIN lines |-> IF lines[j] = "" THEN "blank" ELSE lines[j]]

\* parse_transunion.parse
TU_parse(text) ==
  LET section(k) == SectionOf("transunion", text, k)
  IN [ bureau |-> "transunion",
       accounts |-> TU_parse_accounts_of(section(1)),
       inquiries |->
         TU_parse_inquiries_of(AsInquiryLines(section(2)), "hard")
         \o TU_parse_inquiries_of(AsInquiryLines(section(3)), "promotional")
         \o TU_parse_inquiries_of(AsInquiryLines(section(4)), "account_review") ]

\* parse_experian.parse, for a text without account cards and public records.
EX_parse(text) ==
  LET section(k) == SectionOf("experian", text, k)
  IN [ bureau |-> "experian",
       accounts |-> <<>>,
       inquiries |->
         EX_hard_inquiries_of(AsInquiryLines(section(3)))
         \o EX_parse_inquiries_of(AsInquiryLines(section(4)), "soft") ]

\* The texts parse() is run on: an optional accounts part with one block,
\* then inquiry parts in any order; or up to MaxParts inquiry parts.
MaxParts == 3
TU_FieldLines ==
  <<"Account Type: Revolving", "Pay Status: Current Account", "Balance: $1,109",
    "Credit Limit: $35,000">>
Chosen(seq, S) ==
  Unwrapped(SelectSeq([j \in DOMAIN seq |-> IF j \in S THEN <<seq[j]>> ELSE <<>>],
                      LAMBDA l : l # <<>>))
TU_AccountParts ==
  { <<"ACCOUNTS">> \o c \o <<ACCOUNT_INFO_HDR>> \o Chosen(TU_FieldLines, S) :
      c \in {<<>>, <<"CHASE">>}, S \in SUBSET DOMAIN TU_FieldLines }
InquiryBodies ==
  { <<>>, <<"ALPHA 01/15/2024">>, <<"BETA 02/20/2024">>,
    <<"ALPHA 01/15/2024", "BETA 02/20/2024">>,
    <<"BETA 02/20/2024", "", "ALPHA 01/15/2024">> }
InquiryHeadings(x) ==
  IF x = "transunion" THEN {"INQUIRIES", "PROMO", "REVIEW"} ELSE {"HARD", "SOFT"}
InquiryParts(x) == {<<h>> \o b : h \in InquiryHeadings(x), b \in InquiryBodies}
RECURSIVE Joined(_)
Joined(parts) == IF parts = <<>> THEN <<>> ELSE Head(parts) \o Joined(Tail(parts))
ParseTexts(x) ==
  { Joined(ps) : ps \in SeqsUpTo(InquiryParts(x), MaxParts) \ {<<>>} }
  \cup
  (IF x = "transunion"
   THEN { a \o Joined(ps) : a \in TU_AccountParts,
                            ps \in SeqsUpTo(InquiryParts(x), MaxParts - 1) }
   ELSE {})

ParseInit ==
  /\ parse_of \in {"transunion", "experian"}
  /\ parse_text \in ParseTexts(parse_of)
  /\ parse_out = None
ParseIdle == parse_of = "transunion" /\ parse_text = <<"">> /\ parse_out = None

TU_parse_text ==
  /\ parse_of = "transunion" /\ parse_out = None
  /\ parse_out' = Some(TU_parse(parse_text))
  /\ UNCHANGED <<parse_of, parse_text>>
  /\ UNCHANGED notParse

EX_parse_text ==
  /\ parse_of = "experian" /\ parse_out = None
  /\ parse_out' = Some(EX_parse(parse_text))
  /\ UNCHANGED <<parse_of, parse_text>>
  /\ UNCHANGED notParse

ParseNext == TU_parse_text \/ EX_parse_text

(***************************************************************************)
(* parse_any.py: several parse_report calls, one after another or          *)
(* interleaved                                                             *)
(*                                                                         *)
(* Every variable of parse_report is a local of the call, so each caller   *)
(* has a frame of its own; the modules hold no variable that a call        *)
(* assigns.                                                                *)
(***************************************************************************)

MaxCallers == 2
MaxCalls == 3
Callers == 1..MaxCallers

\* The documents the callers hand in: no signal, one source, a tie of two
\* sources, a tie of the three.
SessionDocs ==
  { EmptyDoc,
    [phrases |-> {"satisfactory accounts"}, nlines |-> 1, nbreaks |-> 0,
     accounts |-> <<OpenCard>>],
    [phrases |-> {"credit accounts"}, nlines |-> 1, nbreaks |-> 0,
     accounts |-> <<CardWithoutLimit, AutoLoan>>],
    [phrases |-> {"balance histories", "credit accounts"}, nlines |-> 1,
     nbreaks |-> 0, accounts |-> <<OpenCard>>],
    [phrases |-> {"satisfactory accounts", "balance histories", "credit accounts"},
     nlines |-> HeadLines + MaxExtraLines, nbreaks |-> MaxPageBreaks,
     accounts |-> <<>>] }

IdleFrame ==
  [pc |-> "idle", doc |-> EmptyDoc, full_text |-> None, cleaned |-> None,
   bureau |-> None, scores |-> None, report |-> NoReport, error |-> NoError]

SessInit ==
  /\ frames = [w \in Callers |-> IdleFrame]
  /\ log = {}
  /\ ncalls = 0
SessIdle == frames = <<>> /\ log = {} /\ ncalls = 0

\* A caller enters parse_report(pdf_path).
CallParseReport(w) ==
  /\ frames[w].pc = "idle"
  /\ ncalls < MaxCalls
  /\ \E d \in SessionDocs :
       frames' = [frames EXCEPT ![w] = [IdleFrame EXCEPT !.pc = "extract", !.doc = d]]
  /\ ncalls' = ncalls + 1
  /\ UNCHANGED log
  /\ UNCHANGED notSess

\* text_result = extract_pdf_text(pdf_path)
CallExtractText(w) ==
  /\ frames[w].pc = "extract"
  /\ frames' = [frames EXCEPT
                  ![w].full_text = Some(extract_pdf_text("path", frames[w].doc)),
                  ![w].pc = "clean"]
  /\ UNCHANGED <<log, ncalls>>
  /\ UNCHANGED notSess

\* cleaned = clean_text(full_text)
CallCleanText(w) ==
  /\ frames[w].pc = "clean"
  /\ frames' = [frames EXCEPT
                  ![w].cleaned = Some(clean_text_doc(frames[w].full_text[1])),
                  ![w].pc = "classify"]
  /\ UNCHANGED <<log, ncalls>>
  /\ UNCHANGED notSess

\* bureau, scores = detect_bureau_with_scores(cleaned)
CallClassify(w) ==
  /\ frames[w].pc = "classify"
  /\ \E order \in IterOrders :
       LET r == detect_bureau_with_scores(frames[w].cleaned[1], order)
       IN frames' = [frames EXCEPT ![w].bureau = Some(r.bureau),
                                   ![w].scores = Some(r.scores),
                                   ![w].pc = "check"]
  /\ UNCHANGED <<log, ncalls>>
  /\ UNCHANGED notSess

\* raise UnknownFormatError(first 20 lines)
CallRaise(w) ==
  /\ frames[w].pc = "check"
  /\ UnknownFormat(frames[w].scores[1])
  /\ frames' = [frames EXCEPT
                  ![w].error = Some([type |-> "UnknownFormatError",
                                     head |-> ErrorHead(frames[w].cleaned[1])]),
                  ![w].pc = "raised"]
  /\ UNCHANGED <<log, ncalls>>
  /\ UNCHANGED notSess

\* report = parse_xx(cleaned)
CallDispatch(w) ==
  /\ frames[w].pc = "check"
  /\ ~UnknownFormat(frames[w].scores[1])
  /\ frames' = [frames EXCEPT
                  ![w].report = Some(parse(ExtractorFor(frames[w].bureau[1]),
                                           frames[w].cleaned[1])),
                  ![w].pc = "stamp"]
  /\ UNCHANGED <<log, ncalls>>
  /\ UNCHANGED notSess

\* report.bureau = bureau
CallStamp(w) ==
  /\ frames[w].pc = "stamp"
  /\ frames' = [frames EXCEPT
                  ![w].report = Some([frames[w].report[1] EXCEPT
                                        !.bureau = frames[w].bureau[1]]),
                  ![w].pc = "normalize"]
  /\ UNCHANGED <<log, ncalls>>
  /\ UNCHANGED notSess

\* report = normalize(report)
CallNormalize(w) ==
  /\ frames[w].pc = "normalize"
  /\ frames' = [frames EXCEPT
                  ![w].report = Some([frames[w].report[1] EXCEPT
                                        !.summary = Some(compute_summary(frames[w].report[1]))]),
                  ![w].pc = "returned"]
  /\ UNCHANGED <<log, ncalls>>
  /\ UNCHANGED notSess

\* The call returns its report, or its exception reaches the caller; the
\* frame is gone.
CallEnds(w) ==
  /\ frames[w].pc \in {"returned", "raised"}
  /\ log' = log \cup {[text |-> frames[w].cleaned[1],
                       report |-> frames[w].report,
                       error |-> frames[w].error]}
  /\ frames' = [frames EXCEPT ![w] = IdleFrame]
  /\ UNCHANGED ncalls
  /\ UNCHANGED notSess

SessNext ==
  \/ \E w \in Callers : CallParseReport(w)
  \/ \E w \in Callers : CallExtractText(w)
  \/ \E w \in Callers : CallCleanText(w)
  \/ \E w \in Callers : CallClassify(w)
  \/ \E w \in Callers : CallRaise(w)
  \/ \E w \in Callers : CallDispatch(w)
  \/ \E w \in Callers : CallStamp(w)
  \/ \E w \in Callers : CallNormalize(w)
  \/ \E w \in Callers : CallEnds(w)

(***************************************************************************)
(* Account sections: the block loop of each extractor                      *)
(*   parse_transunion._parse_accounts, parse_experian._parse_accounts,     *)
(*   parse_equifax._extract_accounts                                       *)
(***************************************************************************)

\* parse_transunion._parse_payment_history: what the row loop does with a
\* line after the table header.  A line matching one of the two row patterns
\* is a row, kept when its month parses; any other line is passed over,
\* unless it reads like a heading, which ends the loop.
TU_HISTORY_HDR == "Balance / Past Due / Scheduled Payment / Rating"
TU_RowShape(l) ==
  CASE l = "2024-08 $120 $0 $120 OK" -> "row"
    [] l = "Jul 2024 $90 / $0 / $90 / 30" -> "row"
    [] l = "Foo 2024 $1 $0 $1 OK" -> "no_month"
    [] l = "2024-05 see Remarks" -> "heading"
    [] l = ACCOUNT_INFO_HDR -> "heading"
    [] l = "Account Type: Revolving" -> "heading"
    [] l = "Pay Status: Current Account" -> "heading"
    [] OTHER -> "other"
TU_RowOf(l) ==
  CASE l = "2024-08 $120 $0 $120 OK" ->
         [month |-> "2024-08", balance |-> Some(120), scheduled_payment |-> Some(120),
          past_due |-> Some(0), rating |-> "OK"]
    [] l = "Jul 2024 $90 / $0 / $90 / 30" ->
         [month |-> "2024-07", balance |-> Some(90), scheduled_payment |-> Some(90),
          past_due |-> Some(0), rating |-> "30"]
RECURSIVE TU_history_rows(_, _)
TU_history_rows(lines, i) ==
  IF i > Len(lines) THEN <<>>
  ELSE LET shape == TU_RowShape(lines[i])
       IN IF shape = "heading" THEN <<>>
          ELSE IF shape = "row" THEN <<TU_RowOf(lines[i])>> \o TU_history_rows(lines, i + 1)
          ELSE TU_history_rows(lines, i + 1)
TU_parse_payment_history(lines) ==
  LET hdr == {j \in DOMAIN lines : lines[j] = TU_HISTORY_HDR}
  IN IF hdr = {} THEN <<>>
     ELSE TU_history_rows(lines, (CHOOSE j \in hdr : \A o \in hdr : j <= o) + 1)

\* The line that starts an account in each extractor's section.
CardAnchor(x) ==
  CASE x = "transunion" -> ACCOUNT_INFO_HDR
    [] x = "experian" -> "Account Info"
    [] x = "equifax" -> "Account Number: 1234"

\* start_line = max(0, i - 3) / max(0, i - 5) / max(0, i - 8)
EX_BlockLookBack == 5
EQ_BlockLookBack == 8
LookBack(x) ==
  CASE x = "transunion" -> BlockLookBack
    [] x = "experian" -> EX_BlockLookBack
    [] x = "equifax" -> EQ_BlockLookBack

\* The creditor: the nearest non-empty line above the anchor inside the
\* block; Equifax passes over the lines that look like a label.
LooksLikeLabel(l) == LineLabel(l) # "none" \/ l = CardAnchor("equifax")
Creditor(x, lines, i, start) ==
  LET cands == {j \in start..(i - 1) :
                  /\ lines[j] # ""
                  /\ x = "equifax" => ~LooksLikeLabel(lines[j])}
  IN IF cands = {} THEN "" ELSE lines[SetMax(cands)]

\* What the probes of the Experian and Equifax loops capture in a block.
Card_block_of(blk) ==
  LET bal == FirstLabelled(blk, "balance")
      lim == FirstLabelled(blk, "credit_limit")
  IN [ text |-> {},
       money |->
         (IF bal = None THEN {}
          ELSE {[probe |-> "balance", raw |-> RawCaptureOf(AmountAfterLabel(bal[1]))]})
         \cup
         (IF lim = None THEN {}
          ELSE {[probe |-> "credit_limit", raw |-> RawCaptureOf(AmountAfterLabel(lim[1]))]}) ]

\* One turn of the loop: the Account built for the anchor at line i, whose
\* block runs from start_line to the line before the next anchor (TransUnion
\* also reads block_ext, which runs on to extended_end).
CardAccount(x, lines, i, end_line) ==
  LET start_line == Max(1, i - LookBack(x))
      extended_end == Min(end_line + BlockExtension, Len(lines))
      blk == SubSeq(lines, start_line, end_line)
      blk_ext == SubSeq(lines, start_line, extended_end)
      fields == CASE x = "transunion" -> TU_parse_account(TU_block_of(blk, blk_ext))
                  [] x = "experian" -> EX_parse_account(Card_block_of(blk))
                  [] x = "equifax" -> EQ_parse_account(Card_block_of(blk))
  IN [ raw_block |-> <<start_line, end_line>>,
       creditor |-> Creditor(x, lines, i, start_line),
       credit_limit |-> fields.credit_limit,
       balance |-> fields.balance,
       payment_history |->
         IF x = "transunion" THEN TU_parse_payment_history(blk_ext) ELSE <<>> ]

\* for idx, i in enumerate(indices): ... accounts.append(Account(...))
RECURSIVE accounts_loop_parsed(_, _, _)
accounts_loop_parsed(x, lines, i) ==
  IF i > Len(lines) THEN <<>>
  ELSE IF lines[i] # CardAnchor(x) THEN accounts_loop_parsed(x, lines, i + 1)
  ELSE
    LET later == {j \in (i + 1)..Len(lines) : lines[j] = CardAnchor(x)}
        end_line == IF later = {} THEN Len(lines)
                    ELSE (CHOOSE j \in later : \A o \in later : j <= o) - 1
        acct == CardAccount(x, lines, i, end_line)
    IN (IF acct.balance = None /\ acct.credit_limit = None THEN <<>> ELSE <<acct>>)
       \o accounts_loop_parsed(x, lines, i + 1)

RECURSIVE accounts_loop(_, _, _)
accounts_loop(x, lines, i) ==
  IF i > Len(lines) THEN <<>>
  ELSE IF lines[i] # CardAnchor(x) THEN accounts_loop(x, lines, i + 1)
  ELSE
    LET later == {j \in (i + 1)..Len(lines) : lines[j] = CardAnchor(x)}
        end_line == IF later = {} THEN Len(lines)
                    ELSE (CHOOSE j \in later : \A o \in later : j <= o) - 1
    IN <<CardAccount(x, lines, i, end_line)>> \o accounts_loop(x, lines, i + 1)

\* The sections the loops are run on: up to MaxCards cards, each an optional
\* creditor line, the anchor and up to MaxCardLines lines under it (a
\* TransUnion card may also end with a payment table); or up to MaxCardLines
\* lines without an anchor.
MaxCards == 2
MaxCardLines == 2
CardLines ==
  {"", "Balance: $1,109", "Balance: $250", "Balance: $.",
   "Credit Limit: $35,000", "Credit Limit: $9,000"}
CardTables ==
  { <<TU_HISTORY_HDR, "2024-08 $120 $0 $120 OK">>,
    <<TU_HISTORY_HDR, "Jul 2024 $90 / $0 / $90 / 30">> }
CardBodies(x) ==
  SeqsUpTo(CardLines, MaxCardLines)
  \cup (IF x = "transunion"
        THEN {b \o t : b \in SeqsUpTo(CardLines, MaxCardLines - 1), t \in CardTables}
        ELSE {})
Cards(x) ==
  { c \o <<CardAnchor(x)>> \o b : c \in {<<>>, <<"CHASE">>, <<"AMEX">>}, b \in CardBodies(x) }
CardSections(x) ==
  { Joined(cs) : cs \in SeqsUpTo(Cards(x), MaxCards) }
  \cup SeqsUpTo(CardLines \cup {"CHASE"}, MaxCardLines)

CardInit ==
  /\ card_of \in Bureau
  /\ card_section \in CardSections(card_of)
  /\ card_out = None
CardIdle == card_of = "none" /\ card_section = <<>> /\ card_out = None

TU_parse_section ==
  /\ card_of = "transunion" /\ card_out = None
  /\ card_out' = Some(accounts_loop("transunion", card_section, 1))
  /\ UNCHANGED <<card_of, card_section>>
  /\ UNCHANGED notCard

EX_parse_section ==
  /\ card_of = "experian" /\ card_out = None
  /\ card_out' = Some(accounts_loop("experian", card_section, 1))
  /\ UNCHANGED <<card_of, card_section>>
  /\ UNCHANGED notCard

EQ_extract_section ==
  /\ card_of = "equifax" /\ card_out = None
  /\ card_out' = Some(accounts_loop("equifax", card_section, 1))
  /\ UNCHANGED <<card_of, card_section>>
  /\ UNCHANGED notCard

CardNext == TU_parse_section \/ EX_parse_section \/ EQ_extract_section

(***************************************************************************)
(* History tables                                                          *)
(*   parse_transunion._parse_payment_history,                              *)
(*   parse_experian._parse_balance_histories,                              *)
(*   parse_equifax._parse_payment_grid                                     *)
(***************************************************************************)

\* parse_experian._parse_balance_histories: what the row loop does with a
\* line after the "Date |" header.  A line of four or more pipe-separated
\* parts, or one matching the row pattern, is a row, kept when its month
\* parses; any other line is passed over, unless it holds a heading word,
\* which ends the loop.
BAL_HIST_HDR == "Balance Histories"
EX_COLUMNS_HDR == "Date | Balance | Scheduled Payment | Paid"
EX_RowShape(l) ==
  CASE l = "Aug 2024 | $0 | $0 | Yes" -> "row"
    [] l = "2024-07 $10 $0 Yes" -> "row"
    [] l = "Foo 2024 | $1 | $1 | Yes" -> "no_month"
    [] l = EX_COLUMNS_HDR -> "no_month"
    [] l = "2024-05 n/a Status" -> "heading"
    [] l = "Account Info" -> "heading"
    [] OTHER -> "other"
EX_RowOf(l) ==
  CASE l = "Aug 2024 | $0 | $0 | Yes" ->
         [month |-> "2024-08", balance |-> Some(0), scheduled_payment |-> Some(0),
          rating |-> "Yes"]
    [] l = "2024-07 $10 $0 Yes" ->
         [month |-> "2024-07", balance |-> Some(10), scheduled_payment |-> Some(0),
          rating |-> "Yes"]
RECURSIVE EX_history_rows_strict(_, _)
EX_history_rows_strict(lines, i) ==
  IF i > Len(lines) THEN <<>>
  ELSE LET shape == EX_RowShape(lines[i])
       IN IF shape = "row" THEN <<EX_RowOf(lines[i])>> \o EX_history_rows_strict(lines, i + 1)
          ELSE IF lines[i] = "" THEN EX_history_rows_strict(lines, i + 1)
          ELSE <<>>

RECURSIVE EX_history_rows(_, _)
EX_history_rows(lines, i) ==
  IF i > Len(lines) THEN <<>>
  ELSE LET shape == EX_RowShape(lines[i])
       IN IF shape = "heading" THEN <<>>
          ELSE IF shape = "row" THEN <<EX_RowOf(lines[i])>> \o EX_history_rows(lines, i + 1)
          ELSE EX_history_rows(lines, i + 1)
\* The line after the first "Date |" line below the first "Balance
\* Histories" line; 0 when there is none.
EX_FirstRowLine(lines) ==
  LET hdr == {j \in DOMAIN lines : lines[j] = BAL_HIST_HDR}
      first == CHOOSE j \in hdr : \A o \in hdr : j <= o
      cols == {j \in DOMAIN lines : j > first /\ lines[j] = EX_COLUMNS_HDR}
  IN IF hdr = {} \/ cols = {} THEN 0
     ELSE (CHOOSE j \in cols : \A o \in cols : j <= o) + 1
EX_parse_balance_histories(lines) ==
  IF EX_FirstRowLine(lines) = 0 THEN <<>>
  ELSE EX_history_rows(lines, EX_FirstRowLine(lines))

\* parse_equifax._parse_payment_grid: a line that starts with a year is a
\* row of rating tokens, one per month of the header (January to December
\* when the block has no header line); the tokens "--", "ND", "N/A" and "*"
\* give no row.  Every other line is passed over.
MONTHS_ABBR ==
  <<"Jan", "Feb", "Mar", "Apr", "May", "Jun", "Jul", "Aug", "Sep", "Oct", "Nov", "Dec">>
MonthNumbers == <<"01", "02", "03", "04", "05", "06", "07", "08", "09", "10", "11", "12">>
EQ_HeaderMonths(l) ==
  CASE l = "Jan Feb Mar Apr May Jun Jul Aug Sep Oct Nov Dec" -> Some(MONTHS_ABBR)
    [] l = "Jan Apr Jul Oct Nov Dec" -> Some(<<"Jan", "Apr", "Jul", "Oct", "Nov", "Dec">>)
    [] OTHER -> None
_detect_months_header(lines) ==
  LET hdr == {j \in DOMAIN lines : EQ_HeaderMonths(lines[j]) # None}
  IN IF hdr = {} THEN None
     ELSE EQ_HeaderMonths(lines[CHOOSE j \in hdr : \A o \in hdr : j <= o])
EQ_YearOf(l) ==
  CASE l = "2024 OK 30 --" -> Some("2024")
    [] l = "2023: OK" -> Some("2023")
    [] OTHER -> None
EQ_TokensOf(l) ==
  CASE l = "2024 OK 30 --" -> <<"OK", "30", "--">>
    [] l = "2023: OK" -> <<"OK">>
NoDataTokens == {"--", "ND", "N/A", "*"}
MonthNumberOf(mon) ==
  MonthNumbers[CHOOSE k \in DOMAIN MONTHS_ABBR : MONTHS_ABBR[k] = mon]
RECURSIVE EQ_grid_row(_, _, _, _)
EQ_grid_row(y, tokens, months, idx) ==
  IF idx > Len(tokens) \/ idx > Len(months) THEN <<>>
  ELSE (IF tokens[idx] \in NoDataTokens THEN <<>>
        ELSE <<[month |-> y \o "-" \o MonthNumberOf(months[idx]), balance |-> None,
                scheduled_payment |-> None, rating |-> tokens[idx]]>>)
       \o EQ_grid_row(y, tokens, months, idx + 1)
RECURSIVE EQ_grid_rows(_, _, _)
EQ_grid_rows(lines, months, i) ==
  IF i > Len(lines) THEN <<>>
  ELSE (IF EQ_YearOf(lines[i]) = None THEN <<>>
        ELSE EQ_grid_row(EQ_YearOf(lines[i])[1], EQ_TokensOf(lines[i]), months, 1))
       \o EQ_grid_rows(lines, months, i + 1)
_parse_payment_grid(lines) ==
  LET detected == _detect_months_header(lines)
  IN EQ_grid_rows(lines, IF detected = None THEN MONTHS_ABBR ELSE detected[1], 1)

\* The blocks the table parsers are run on: up to MaxTableLines lines.
MaxTableLines == 4
TableLines(x) ==
  CASE x = "transunion" ->
         {"", TU_HISTORY_HDR, "2024-08 $120 $0 $120 OK", "Jul 2024 $90 / $0 / $90 / 30",
          "Foo 2024 $1 $0 $1 OK", "2024-06 n/a", "2024-05 see Remarks"}
    [] x = "experian" ->
         {"", BAL_HIST_HDR, EX_COLUMNS_HDR, "Aug 2024 | $0 | $0 | Yes", "2024-07 $10 $0 Yes",
          "Foo 2024 | $1 | $1 | Yes", "2024-06 n/a", "2024-05 n/a Status"}
    [] x = "equifax" ->
         {"", "Jan Feb Mar Apr May Jun Jul Aug Sep Oct Nov Dec", "Jan Apr Jul Oct Nov Dec",
          "2024 OK 30 --", "2023: OK", "20x4 OK", "Payment History"}
TableBlocks(x) == SeqsUpTo(TableLines(x), MaxTableLines)

TblInit ==
  /\ tbl_of \in Bureau
  /\ tbl_block \in TableBlocks(tbl_of)
  /\ tbl_out = None
TblIdle == tbl_of = "none" /\ tbl_block = <<>> /\ tbl_out = None

TU_parse_history ==
  /\ tbl_of = "transunion" /\ tbl_out = None
  /\ tbl_out' = Some(TU_parse_payment_history(tbl_block))
  /\ UNCHANGED <<tbl_of, tbl_block>>
  /\ UNCHANGED notTbl

EX_parse_history ==
  /\ tbl_of = "experian" /\ tbl_out = None
  /\ tbl_out' = Some(EX_parse_balance_histories(tbl_block))
  /\ UNCHANGED <<tbl_of, tbl_block>>
  /\ UNCHANGED notTbl

EQ_parse_grid ==
  /\ tbl_of = "equifax" /\ tbl_out = None
  /\ tbl_out' = Some(_parse_payment_grid(tbl_block))
  /\ UNCHANGED <<tbl_of, tbl_block>>
  /\ UNCHANGED notTbl

TblNext == TU_parse_history \/ EX_parse_history \/ EQ_parse_grid

(***************************************************************************)
(* text_utils.clean_text on the text pdf_text.extract_pdf_text builds      *)
(*                                                                         *)
(* A text is a sequence of characters: "a" stands for any character that   *)
(* is neither whitespace nor a private-use glyph, "NBSP" for U+00A0, "PUA" *)
(* for a private-use glyph, and PAGE_MARK for the characters ===PAGE i===. *)
(***************************************************************************)

PAGE_MARK == "===PAGE i==="
\* PAGE_BREAK = "\n\n===PAGE {i}===\n\n"
PAGE_BREAK == <<"\n", "\n", PAGE_MARK, "\n", "\n">>
\* \s of a str pattern: U+00A0 is whitespace, a private-use glyph is not.
IsWhitespace(c) == c \in {" ", "\t", "\n", "NBSP"}
_is_pua(c) == c = "PUA"

\* full_text: the page texts, PAGE_BREAK before every page but the first.
RECURSIVE joined_pages(_)
joined_pages(pages) ==
  IF pages = <<>> THEN <<>>
  ELSE IF Len(pages) = 1 THEN pages[1]
  ELSE pages[1] \o PAGE_BREAK \o joined_pages(Tail(pages))

\* PAGE_BREAK_RE = \n+\s*===PAGE\s+\d+===\s*\n+ matched at position i: the
\* position of the last character of the match, 0 when there is no match.
\* The match starts on a newline, runs over whitespace to the mark, and after
\* the mark up to the last newline of the whitespace that follows it.
PageBreakMatchEnd(text, i) ==
  LET nonws == {j \in i..Len(text) : ~IsWhitespace(text[j])}
      mark == CHOOSE j \in nonws : \A o \in nonws : j <= o
      after == {m \in (mark + 1)..Len(text) : ~IsWhitespace(text[m])}
      stop == IF after = {} THEN Len(text) + 1
              ELSE CHOOSE m \in after : \A o \in after : m <= o
      nls == {q \in (mark + 1)..(stop - 1) : text[q] = "\n"}
  IN IF text[i] # "\n" \/ nonws = {} THEN 0
     ELSE IF text[mark] # PAGE_MARK \/ nls = {} THEN 0
     ELSE CHOOSE q \in nls : \A o \in nls : o <= q

\* PAGE_BREAK_RE.sub("\n", text), from position pos on: the leftmost match is
\* replaced and the search goes on behind it.
RECURSIVE PageBreakSub(_, _)
PageBreakSub(text, pos) ==
  LET starts == {i \in pos..Len(text) : PageBreakMatchEnd(text, i) # 0}
      first == CHOOSE i \in starts : \A o \in starts : i <= o
  IN IF starts = {} THEN SubSeq(text, pos, Len(text))
     ELSE SubSeq(text, pos, first - 1) \o <<"\n">>
          \o PageBreakSub(text, PageBreakMatchEnd(text, first) + 1)

\* s.replace("\xa0", " "), and " " for every private-use glyph.
Blanked(text) ==
  [i \in DOMAIN text |-> IF text[i] = "NBSP" \/ _is_pua(text[i]) THEN " " ELSE text[i]]

\* re.sub(r"[ \t]{2,}", " ", s)
IsBlank(c) == c \in {" ", "\t"}
RECURSIVE CollapseRuns(_, _)
CollapseRuns(text, i) ==
  IF i > Len(text) THEN <<>>
  ELSE IF i < Len(text) /\ IsBlank(text[i]) /\ IsBlank(text[i + 1])
       THEN LET others == {j \in i..Len(text) : ~IsBlank(text[j])}
                next == IF others = {} THEN Len(text) + 1
                        ELSE CHOOSE j \in others : \A o \in others : j <= o
            IN <<" ">> \o CollapseRuns(text, next)
       ELSE <<text[i]>> \o CollapseRuns(text, i + 1)

clean_text(text) == CollapseRuns(Blanked(PageBreakSub(text, 1)), 1)

\* The documents: up to MaxPages pages of up to MaxPageChars characters.
MaxPages == 3
MaxPageChars == 2
PageChars == {"a", " ", "\t", "\n", "NBSP", "PUA"}
PageTexts == SeqsUpTo(PageChars, MaxPageChars)

TxtInit ==
  /\ txt_pages \in SeqsUpTo(PageTexts, MaxPages)
  /\ txt_full = None /\ txt_cleaned = None /\ txt_again = None
TxtIdle == txt_pages = <<>> /\ txt_full = None /\ txt_cleaned = None /\ txt_again = None

\* extract_pdf_text: full_text
JoinPages ==
  /\ txt_full = None
  /\ txt_full' = Some(joined_pages(txt_pages))
  /\ UNCHANGED <<txt_pages, txt_cleaned, txt_again>>
  /\ UNCHANGED notTxt

\* parse_report: cleaned = clean_text(full_text), the text the classifier scores
CleanFullText ==
  /\ txt_full # None /\ txt_cleaned = None
  /\ txt_cleaned' = Some(clean_text(txt_full[1]))
  /\ UNCHANGED <<txt_pages, txt_full, txt_again>>
  /\ UNCHANGED notTxt

\* parse(text): text = clean_text(text), the text the extractor parses
CleanInExtractor ==
  /\ txt_cleaned # None /\ txt_again = None
  /\ txt_again' = Some(clean_text(txt_cleaned[1]))
  /\ UNCHANGED <<txt_pages, txt_full, txt_cleaned>>
  /\ UNCHANGED notTxt

TxtNext == JoinPages \/ CleanFullText \/ CleanInExtractor

(***************************************************************************)
(* Specifications                                                          *)
(***************************************************************************)

vars == <<pipeVars, acctVars, sumVars, spanVars, inqVars, amtVars, dateVars, parseVars, sessVars, cardVars, tblVars, txtVars>>

PipeIdle ==
  /\ pc = "off" /\ argv = "none" /\ doc = EmptyDoc
  /\ full_text = None /\ cleaned = None /\ bureau = None /\ scores = None
  /\ report = NoReport /\ error = NoError /\ exit_code = None /\ stages = <<>>

\* One run of the command line on one document.
Init == PipeInit /\ AcctIdle /\ SumIdle /\ SpanIdle /\ InqIdle /\ AmtIdle /\ DateIdle /\ ParseIdle /\ SessIdle /\ CardIdle /\ TblIdle /\ TxtIdle
Next == PipeNext
Spec == Init /\ [][Next]_vars

\* One account block handed to one extractor's account parser.
InitAccounts == AcctInit /\ PipeIdle /\ SumIdle /\ SpanIdle /\ InqIdle /\ AmtIdle /\ DateIdle /\ ParseIdle /\ SessIdle /\ CardIdle /\ TblIdle /\ TxtIdle
NextAccounts == AcctNext
SpecAccounts == InitAccounts /\ [][NextAccounts]_vars

\* One report handed to the aggregator.
InitSummary == SumInit /\ PipeIdle /\ AcctIdle /\ SpanIdle /\ InqIdle /\ AmtIdle /\ DateIdle /\ ParseIdle /\ SessIdle /\ CardIdle /\ TblIdle /\ TxtIdle
NextSummary == SumNext
SpecSummary == InitSummary /\ [][NextSummary]_vars

\* One section lookup on one text.
InitSpan == SpanInit /\ PipeIdle /\ AcctIdle /\ SumIdle /\ InqIdle /\ AmtIdle /\ DateIdle /\ ParseIdle /\ SessIdle /\ CardIdle /\ TblIdle /\ TxtIdle
NextSpan == SpanNext
SpecSpan == InitSpan /\ [][NextSpan]_vars

\* One inquiry section handed to one extractor's inquiry parser.
InitInquiries == InqInit /\ PipeIdle /\ AcctIdle /\ SumIdle /\ SpanIdle /\ AmtIdle /\ DateIdle /\ ParseIdle /\ SessIdle /\ CardIdle /\ TblIdle /\ TxtIdle
NextInquiries == InqNext
SpecInquiries == InitInquiries /\ [][NextInquiries]_vars

\* One call of an amount helper on one argument.
InitAmounts == AmtInit /\ PipeIdle /\ AcctIdle /\ SumIdle /\ SpanIdle /\ InqIdle /\ DateIdle /\ ParseIdle /\ SessIdle /\ CardIdle /\ TblIdle /\ TxtIdle
NextAmounts == AmtNext
SpecAmounts == InitAmounts /\ [][NextAmounts]_vars

\* One call of one extractor's date parser.
InitDates == DateInit /\ PipeIdle /\ AcctIdle /\ SumIdle /\ SpanIdle /\ InqIdle /\ AmtIdle /\ ParseIdle /\ SessIdle /\ CardIdle /\ TblIdle /\ TxtIdle
NextDates == DateNext
SpecDates == InitDates /\ [][NextDates]_vars

\* One call of one extractor's parse() on a whole text.
InitParse == ParseInit /\ PipeIdle /\ AcctIdle /\ SumIdle /\ SpanIdle /\ InqIdle /\ AmtIdle /\ DateIdle /\ SessIdle /\ CardIdle /\ TblIdle /\ TxtIdle
NextParse == ParseNext
SpecParse == InitParse /\ [][NextParse]_vars

\* parse_report calls of several callers.
InitSessions == SessInit /\ PipeIdle /\ AcctIdle /\ SumIdle /\ SpanIdle /\ InqIdle /\ AmtIdle /\ DateIdle /\ ParseIdle /\ CardIdle /\ TblIdle /\ TxtIdle
NextSessions == SessNext
SpecSessions == InitSessions /\ [][NextSessions]_vars
\* One run of one extractor's block loop on an accounts section.
InitCards == CardInit /\ PipeIdle /\ AcctIdle /\ SumIdle /\ SpanIdle /\ InqIdle /\ AmtIdle /\ DateIdle /\ ParseIdle /\ SessIdle /\ TblIdle /\ TxtIdle
NextCards == CardNext
SpecCards == InitCards /\ [][NextCards]_vars

\* One run of one extractor's history table parser on a block.
InitTables == TblInit /\ PipeIdle /\ AcctIdle /\ SumIdle /\ SpanIdle /\ InqIdle /\ AmtIdle /\ DateIdle /\ ParseIdle /\ SessIdle /\ CardIdle /\ TxtIdle
NextTables == TblNext
SpecTables == InitTables /\ [][NextTables]_vars

\* The cleaning passes of one document.
InitText == TxtInit /\ PipeIdle /\ AcctIdle /\ SumIdle /\ SpanIdle /\ InqIdle /\ AmtIdle /\ DateIdle /\ ParseIdle /\ SessIdle /\ CardIdle /\ TblIdle
NextText == TxtNext
SpecText == InitText /\ [][NextText]_vars



(***************************************************************************)
(* Claims about the classifier and the orchestrator                        *)
(***************************************************************************)

AllZero(sc) == \A b \in Bureau : sc[b] = 0
SomePositive(sc) == \E b \in Bureau : sc[b] > 0
RanExtractor == \E i \in DOMAIN stages :
  stages[i] \in {"parse_transunion", "parse_experian", "parse_equifax"}
RanAggregator == \E i \in DOMAIN stages : stages[i] = "normalize"

\* C1: parse_report raises UnknownFormatError, carrying the first 20 lines of
\* the cleaned text, exactly when every score is zero; then no extractor and
\* no aggregator has run, no report exists and the process exits with a
\* non-zero code that is not the usage code.  When some score is positive
\* the error is never raised and the run ends with a report and exit code 0.
C1_UnknownFormatExactlyOnZeroScores ==
  /\ error # NoError =>
       /\ scores # None /\ AllZero(scores[1])
       /\ error[1].type = "UnknownFormatError"
       /\ error[1].head = [i \in 1..Min(20, cleaned[1].nlines) |-> i]
       /\ report = NoReport /\ ~RanExtractor /\ ~RanAggregator
  /\ (scores # None /\ AllZero(scores[1])) =>
       /\ report = NoReport /\ ~RanExtractor /\ ~RanAggregator
       /\ pc \in {"check", "raised", "exited"}
       /\ pc # "check" => error # NoError
  /\ (scores # None /\ SomePositive(scores[1])) =>
       /\ error = NoError
       /\ pc \in {"returned", "exited"} => report # NoReport
  /\ (pc = "exited" /\ error # NoError) =>
       /\ exit_code # None /\ exit_code[1] # 0 /\ exit_code[1] # USAGE_EXIT
  /\ (pc = "exited" /\ report # NoReport) => exit_code = Some(0)
  /\ (pc = "exited" /\ argv = "none") =>
       exit_code = Some(USAGE_EXIT) /\ error = NoError /\ report = NoReport

\* A run on a document of more than 20 lines without any signal has ended in
\* the classification error.
C1_Witness ==
  /\ pc = "exited" /\ error # NoError
  /\ cleaned[1].nlines > 20 /\ Len(error[1].head) = 20
  /\ exit_code = Some(UNKNOWN_FORMAT_EXIT)

\* C2: for a text whose score vector is all zero the classifier signals
\* failure and returns no source identifier.
C2_NoGuessOnZeroEvidence ==
  (scores # None /\ AllZero(scores[1])) => bureau = None

ClaimOrder == <<"transunion", "experian", "equifax">>
RankOf(b) == CHOOSE i \in 1..3 : ClaimOrder[i] = b

\* C3: when the maximum score is positive the returned source scores the
\* maximum and is the first, in the order transunion, experian, equifax, of
\* the sources that do; this holds for every iteration order of the score
\* map and every layout of the text.
C3_MaxScoreThenPriority ==
  (scores # None /\ SomePositive(scores[1])) =>
     /\ bureau # None /\ bureau[1] \in Bureau
     /\ \A b \in Bureau : scores[1][b] <= scores[1][bureau[1]]
     /\ \A b \in Bureau :
          scores[1][b] = scores[1][bureau[1]] => RankOf(bureau[1]) <= RankOf(b)
     /\ scores[1] = _scores(cleaned[1])

\* A three-way tie on a positive score has been resolved, and so has a tie
\* between experian and equifax only.
C3_Witness ==
  /\ scores # None /\ bureau # None
  /\ scores[1]["experian"] = scores[1]["equifax"]
  /\ scores[1]["experian"] > scores[1]["transunion"]
  /\ scores[1]["transunion"] > 0
  /\ bureau[1] = "experian"

(***************************************************************************)
(* Claims about the emitted accounts                                       *)
(***************************************************************************)

Emitted == {accounts[i] : i \in DOMAIN accounts}
MoneyFields == {"credit_limit", "high_balance", "balance", "scheduled_payment", "past_due"}

\* The keywords each extractor's mappings test.
KindKeywords(x) ==
  CASE x = "transunion" ->
         {"revolving", "mortgage", "installment", "lease", "student", "^open",
          "open account"}
    [] x = "experian" ->
         {"credit card", "mortgage", "conventional", "education", "student",
          "lease", "auto", "installment", "personal loan", "loan", "^open"}
    [] x = "equifax" ->
         {"revolving", "credit card", "mortgage", "home", "student", "education",
          "lease", "installment", "auto", "loan", "^open"}
StatusKeywords(x) ==
  {"paid", "closed", "collection", "charge-off", "chargeoff", "charge off",
   "30", "60", "90", "120", "late", "delinquent"}
  \cup CASE x = "transunion" -> {"current account", "<current>", "transferred", "<sold>"}
         [] x = "experian" -> {"open", "never late", "transferred", "sold"}
         [] x = "equifax" -> {"pays as agreed", "open", "never late", "transfer", "sold"}
TypeText(x, b) == UNION {Field(b, f) : f \in KindFields(x)}
StatusText(x, b) == UNION {Field(b, f) : f \in StatusFields(x)}
MatchesNone(t, kws) == \A f \in t : Substrings(f) \cap kws = {}

\* C4: every emitted Account has a kind among the seven and a status among
\* the nine enumerated values; type text matching no keyword gives kind
\* "other" and status text matching no keyword gives status "open".
C4_KindAndStatusEnumerated ==
  \A a \in Emitted :
    /\ a.kind \in {"revolving", "mortgage", "installment", "open", "lease",
                   "student", "other"}
    /\ a.status \in {"open", "closed", "transferred", "sold", "paid",
                     "collection", "chargeoff", "delinquent", "current"}
    /\ MatchesNone(TypeText(extractor, block), KindKeywords(extractor))
         => a.kind = "other"
    /\ MatchesNone(StatusText(extractor, block), StatusKeywords(extractor))
         => a.status = "open"

\* An Experian account whose type and status wording match no keyword has
\* been emitted with the defaults.
C4_Witness ==
  /\ extractor = "experian" /\ accounts # <<>>
  /\ Field(block, "account_type") = {"misc"}
  /\ Field(block, "status_raw") = {"misc"}
  /\ accounts[1].kind = "other" /\ accounts[1].status = "open"

\* The credit limit the probes found, before the guardrail.
ParsedLimit(x, b) ==
  IF x = "transunion" THEN TU_raw_credit_limit(b)
  ELSE _to_float(Capture(b, "credit_limit"))
InLimitRange(v) == 100 <= v /\ v <= 10000000

C6_MoneyNonNegative ==
  \A a \in Emitted : \A f \in MoneyFields : a[f] = None \/ a[f][1] >= 0

\* An account has been emitted with a parsed balance and a null past-due
\* amount next to it.
C6_Witness ==
  /\ accounts # <<>>
  /\ accounts[1].balance = Some(0)
  /\ accounts[1].high_balance = Some(15000)
  /\ accounts[1].past_due = None

\* C10: in every extractor a status text holding both a transferred keyword
\* and a sold keyword, and matching no higher-priority rule (current, or paid
\* and closed), maps to status sold.
C10_TransferredAndSoldIsSold ==
  \A a \in Emitted :
    LET hay == StatusText(extractor, block)
    IN (/\ Has(hay, "transferred") /\ Has(hay, "<sold>")
        /\ a.status # "current"
        /\ ~(Has(hay, "paid") /\ Has(hay, "closed")))
       => a.status = "sold"

(***************************************************************************)
(* Claims about the summary                                                *)
(***************************************************************************)

Aggregated == npc = "done"
Summary == nreport.summary[1]
Qualifying ==
  {i \in DOMAIN nreport.accounts :
     LET a == nreport.accounts[i]
     IN /\ a.kind = "revolving" /\ a.status \in {"open", "current"}
        /\ a.credit_limit # None /\ a.credit_limit[1] > 0}
RECURSIVE SumSet(_, _)
SumSet(S, f) ==
  IF S = {} THEN 0
  ELSE LET x == CHOOSE y \in S : TRUE IN f[x] + SumSet(S \ {x}, f)
QualifyingLimit ==
  SumSet(Qualifying, [i \in Qualifying |-> nreport.accounts[i].credit_limit[1]])
QualifyingBalance ==
  SumSet(Qualifying,
         [i \in Qualifying |-> current_or_latest_balance(nreport.accounts[i])])
Abs(n) == IF n < 0 THEN -n ELSE n

\* C9: utilization is the balances of the revolving, open-or-current accounts
\* with a positive known limit divided by their limits, rounded to one
\* decimal (no tenth is nearer to the quotient), and null exactly when no
\* account qualifies; one qualifying account with limit 1000 and balance 250
\* gives 0.2.
C9_UtilizationRoundedRatio ==
  Aggregated =>
    /\ (Summary.utilization = None) <=> (Qualifying = {})
    /\ (Qualifying = {}) <=> (QualifyingLimit = 0)
    /\ Qualifying # {} =>
         2 * Abs(Summary.utilization[1] * QualifyingLimit - 10 * QualifyingBalance)
           <= QualifyingLimit
    /\ (/\ Len(nreport.accounts) = 1 /\ Qualifying = {1}
        /\ nreport.accounts[1].credit_limit = Some(1000)
        /\ nreport.accounts[1].balance = Some(250))
       => Summary.utilization = Some(2)

\* Two qualifying accounts have been aggregated to a utilization, 330/2000,
\* that had to be rounded up.
C9_Witness ==
  /\ Aggregated
  /\ Cardinality(Qualifying) = 2
  /\ QualifyingLimit = 2000 /\ QualifyingBalance = 330
  /\ Summary.utilization = Some(2)

(***************************************************************************)
(* Claims about the section finder                                         *)
(***************************************************************************)

SpanReturned == span_result # None
SpanStartPat == StartAnchor(span_of, span_call)
SpanEndPats == EndAnchors(span_of, span_call)
HasLine(h) == \E j \in DOMAIN span_text : span_text[j] = h
\* The start offsets of the end anchors' first matches at or after offset s.
FirstEndMatches(s) ==
  {Search(span_of, span_text, SpanEndPats[i], s)[1].start :
     i \in {k \in DOMAIN SpanEndPats :
              Search(span_of, span_text, SpanEndPats[k], s) # None}}

\* C8: _find_span returns (-1, -1) when the start anchor has no match, and
\* otherwise (s, e) with s the end offset of the first start-anchor match and
\* e the smallest start offset among the end anchors' first matches at or
\* after s, or len(text) when no end anchor matches there, so that
\* 0 <= s <= e <= len(text).  It always returns a pair.
C8_FindSpan ==
  SpanReturned =>
    LET s == span_result[1][1]
        e == span_result[1][2]
        m == Search(span_of, span_text, SpanStartPat, 0)
    IN /\ ~HasLine(SpanStartPat) => (m = None /\ s = -1 /\ e = -1)
       /\ HasLine(SpanStartPat) =>
            /\ m # None /\ s = m[1].end
            /\ 0 <= s /\ s <= e /\ e <= TextLen(span_text)
            /\ IF FirstEndMatches(s) = {} THEN e = TextLen(span_text)
               ELSE e \in FirstEndMatches(s) /\ \A f \in FirstEndMatches(s) : e <= f

\* A section has been found that ends strictly inside the text at the nearer
\* of two end headings that both follow it.
C8_Witness ==
  /\ SpanReturned
  /\ Cardinality(FirstEndMatches(span_result[1][1])) = 2
  /\ 0 < span_result[1][1] /\ span_result[1][1] < span_result[1][2]
  /\ span_result[1][2] < TextLen(span_text)

\* A lookup whose start heading is absent has returned the not-found pair.
C8_NotFoundReached ==
  SpanReturned /\ ~HasLine(SpanStartPat) /\ span_result = Some(<<-1, -1>>)

(***************************************************************************)
(* Claims about the inquiries                                              *)
(***************************************************************************)

InquiriesParsed == inquiries # None
DateLines == {i \in DOMAIN inq_section : HasDateToken(inq_section[i])}

\* C7: a line with no resolvable date never produces an inquiry: each emitted
\* Inquiry has a date and a non-empty name, and a section gives at most as
\* many inquiries as it has lines holding a date token.
C7_AtMostOneInquiryPerDateLine ==
  InquiriesParsed =>
    /\ \A i \in DOMAIN inquiries[1] :
         inquiries[1][i].name # "" /\ inquiries[1][i].date = "2024-01-15"
    /\ Len(inquiries[1]) <= Cardinality(DateLines)

(***************************************************************************)
(* Claims about the amount helpers                                         *)
(***************************************************************************)

AmountReturned(fn) == amt_fn = fn /\ amt_pc \in {"returned", "reparsed"}
HasDigit(s) == \E i \in DOMAIN s : IsDigit(s[i])

C11_LastTokenReached ==
  /\ AmountReturned("parse_amount")
  /\ amt_in = StrArg(<<"1", " ", "-", "7">>)
  /\ amt_out = Some(0 - 7 * Unit)

\* The figures of a label: the groups of digits and separators that hold a
\* digit, in the order they occur.
LabelFigures(s) == SelectSeq(FindAllFigures(s, 1), HasDigit)

\* C12: for every label text that holds at least one figure, whatever text
\* or punctuation surrounds or follows the figures, latest_hist_amount
\* returns the value of the last figure.
C12_LastFigureOfLabel ==
  (AmountReturned("latest_hist_amount") /\ amt_in.type = "str") =>
    LET figs == LabelFigures(amt_in.s)
    IN figs # <<>> =>
         /\ amt_out # None
         /\ amt_out = parse_amount(StrArg(figs[Len(figs)]))

\* C13: when parse_amount returns a value, writing the value as a plain
\* decimal numeral and parsing that numeral returns the same value.
C13_ParseAmountIdempotent ==
  amt_pc = "reparsed" => amt_again = amt_out

\* -7.1, read from "-7.1", has been written out and read again.
C13_Witness ==
  /\ amt_pc = "reparsed"
  /\ amt_in = StrArg(<<"-", "7", ".", "1">>)
  /\ amt_out = Some(0 - (7 * Unit + Unit \div 10))
  /\ amt_again = amt_out

(***************************************************************************)
(* The date recoveries                                                     *)
(***************************************************************************)

DateReturned == date_pc = "returned"
\* The places where a month name, abbreviated or full, is followed by a
\* four-digit year.
MonthNameThenYear(s) ==
  {i \in DOMAIN s :
     s[i] \in {"Jan", "January"} /\ i + 1 <= Len(s) /\ LeadingYear(s[i + 1]) # 0}
\* Month and year written as one word, which may or may not count.
JoinedMonthYear(s) == {i \in DOMAIN s : s[i] \in {"Jan-2024", "Jan/2024"}}
\* What the YYYY-MM-like words allow: the first day of a month that exists,
\* null for a month that does not, null when there is no such word.
YearMonthAllowed(s) ==
  IF \A i \in DOMAIN s : s[i] \notin {"2023-05", "2023-13"} THEN {None}
  ELSE {Some(<<2023, 5, 1>>) : i \in {j \in DOMAIN s : s[j] = "2023-05"}}
       \cup {None : i \in {j \in DOMAIN s : s[j] = "2023-13"}}
RecoveryAllowed(s) ==
  LET joined == IF JoinedMonthYear(s) = {} THEN {} ELSE {Some(<<2024, 1, 1>>)}
  IN IF MonthNameThenYear(s) # {}
     THEN {Some(<<LeadingYear(s[i + 1]), 1, 1>>) : i \in MonthNameThenYear(s)}
          \cup joined
     ELSE joined \cup YearMonthAllowed(s)

\* C14: in each extractor, a string that matches no absolute format and
\* contains a month name (abbreviated or full) followed by a four-digit year
\* gives the first day of that month; otherwise one with a YYYY-MM-like word
\* gives the first day of that month; otherwise the parser returns null.
C14_TwoRecoveriesInOrder ==
  (DateReturned /\ date_in # <<>> /\ AbsoluteFormats(date_in) = None)
    => date_out \in RecoveryAllowed(date_in)

\* The limit left by the guardrail, before any substitution.
UsableLimit(x, b) == clamp_limit(ParsedLimit(x, b))

\* C15: in each extractor an account without a usable credit limit and with
\* an extracted high-balance figure is emitted with that figure as its
\* credit_limit when the figure lies within [100, 10,000,000] and with a null
\* credit_limit otherwise; a usable credit limit is never replaced.
C15_HighBalanceSubstitution ==
  \A a \in Emitted :
    LET usable == UsableLimit(extractor, block)
    IN /\ (usable = None /\ a.high_balance # None) =>
            a.credit_limit =
              IF InLimitRange(a.high_balance[1]) THEN a.high_balance ELSE None
       /\ usable # None => a.credit_limit = usable

\* An Equifax account with a limit below the floor and a high credit of
\* 15000 has been emitted with 15000 as its limit.
C15_Witness ==
  /\ extractor = "equifax" /\ accounts # <<>>
  /\ ParsedLimit(extractor, block) = Some(5)
  /\ accounts[1].high_balance = Some(15000)
  /\ accounts[1].credit_limit = Some(15000)

\* A TransUnion account with a usable limit of 100 and a larger high balance
\* has been emitted with its own limit.
C15_LimitKeptReached ==
  /\ extractor = "transunion" /\ accounts # <<>>
  /\ accounts[1].high_balance = Some(15000)
  /\ accounts[1].credit_limit = Some(100)

\* The number of accounts of the aggregated report that satisfy P.
CountWhere(P(_)) ==
  Cardinality({i \in DOMAIN nreport.accounts : P(nreport.accounts[i])})
IsOpenCard(a) == a.kind = "revolving" /\ a.status \in {"open", "current"}
IsMortgage(a) == a.kind = "mortgage"
IsStudentLoan(a) == a.kind = "student"
IsAutoLoan(a) == a.kind = "installment" /\ a.auto_keyword

\* C19: the summary counts are the category cardinalities of the account
\* list: open_cards counts the revolving accounts with status open or
\* current, mortgages the kind mortgage, student_loans the kind student, and
\* auto_loans the installment accounts with an auto, vehicle or car keyword.
C19_CountsAreCardinalities ==
  Aggregated =>
    /\ Summary.open_cards = CountWhere(IsOpenCard)
    /\ Summary.mortgages = CountWhere(IsMortgage)
    /\ Summary.student_loans = CountWhere(IsStudentLoan)
    /\ Summary.auto_loans = CountWhere(IsAutoLoan)

(***************************************************************************)
(* The stages of a successful parse_report call                            *)
(***************************************************************************)

Succeeded == report # NoReport /\ pc \in {"returned", "exited"}
OwnExtractor(b) ==
  CASE b = "transunion" -> "parse_transunion"
    [] b = "experian" -> "parse_experian"
    [] b = "equifax" -> "parse_equifax"
    [] OTHER -> "none"
IsPrefix(s, t) == Len(s) <= Len(t) /\ \A i \in DOMAIN s : s[i] = t[i]

Parsed == parse_out # None
MinimalTransunionText == <<"ACCOUNTS", ACCOUNT_INFO_HDR>> \o TU_FieldLines
\* The text is the minimal one, possibly with the creditor's name above the
\* block and with inquiry sections after it.
HoldsMinimalBlock(text) ==
  \/ IsPrefix(MinimalTransunionText, text)
  \/ IsPrefix(<<"ACCOUNTS", "CHASE", ACCOUNT_INFO_HDR>> \o TU_FieldLines, text)

\* C16: parsing a TransUnion text with a 'Satisfactory Accounts' heading and
\* one 'Account Information' block holding 'Account Type: Revolving', 'Pay
\* Status: Current Account', 'Balance: $1,109' and 'Credit Limit: $35,000'
\* yields exactly one Account, with kind revolving, status current, balance
\* 1109.0 and credit_limit 35000.0.
C16_MinimalTransunionAccount ==
  (Parsed /\ parse_of = "transunion" /\ HoldsMinimalBlock(parse_text)) =>
    /\ Len(parse_out[1].accounts) = 1
    /\ parse_out[1].accounts[1].kind = "revolving"
    /\ parse_out[1].accounts[1].status = "current"
    /\ parse_out[1].accounts[1].balance = Some(1109)
    /\ parse_out[1].accounts[1].credit_limit = Some(35000)

\* The minimal text itself has been parsed into its one account.
C16_Witness ==
  /\ Parsed /\ parse_of = "transunion" /\ parse_text = MinimalTransunionText
  /\ Len(parse_out[1].accounts) = 1
  /\ parse_out[1].accounts[1].balance = Some(1109)

\* The lines of the text under heading h: from each line holding h to the
\* next line holding any section heading.
SectionHeadings == {"ACCOUNTS", "PUBLIC", "INQUIRIES", "PROMO", "REVIEW", "HARD", "SOFT"}
UnderHeading(text, h) ==
  {j \in DOMAIN text :
     /\ text[j] \notin SectionHeadings
     /\ \E k \in 1..(j - 1) :
          text[k] = h /\ \A o \in (k + 1)..(j - 1) : text[o] \notin SectionHeadings}
DatedUnder(text, h) == {j \in UnderHeading(text, h) : HasDateToken(text[j])}
HeadingOfKind(kind) ==
  CASE kind = "hard" -> IF parse_of = "transunion" THEN "INQUIRIES" ELSE "HARD"
    [] kind = "promotional" -> "PROMO"
    [] kind = "account_review" -> "REVIEW"
    [] kind = "soft" -> "SOFT"
KindRank(kind) ==
  CASE kind = "hard" -> 1 [] kind = "promotional" -> 2
    [] kind = "account_review" -> 3 [] kind = "soft" -> 4
\* The inquiries of one kind, in report order.
OfKind(inqs, kind) == SelectSeq(inqs, LAMBDA q : q.kind = kind)
\* What the dated lines under heading h give, in line order.
RECURSIVE LinesInOrder(_, _, _)
LinesInOrder(text, S, j) ==
  IF j > Len(text) THEN <<>>
  ELSE (IF j \in S THEN <<[name |-> NamePart(text[j]), date |-> ParsedDate(text[j])[1]]>>
        ELSE <<>>)
       \o LinesInOrder(text, S, j + 1)
Unkinded(inqs) == [j \in DOMAIN inqs |-> [name |-> inqs[j].name, date |-> inqs[j].date]]

\* C20: an inquiry's kind is determined solely by the section it was found
\* in (TransUnion: 'Inquiries' hard, 'Promotional Inquiries' promotional,
\* 'Account Review Inquiries' account_review; Experian: 'Hard Inquiries'
\* hard, 'Soft Inquiries' soft); the report lists the inquiries grouped in
\* that section order, each group in line order.
C20_KindBySection ==
  Parsed =>
    LET inqs == parse_out[1].inquiries
    IN /\ \A i, j \in DOMAIN inqs : i < j => KindRank(inqs[i].kind) <= KindRank(inqs[j].kind)
       /\ \A kind \in {"hard", "promotional", "account_review", "soft"} :
            Unkinded(OfKind(inqs, kind))
              = LinesInOrder(parse_text, DatedUnder(parse_text, HeadingOfKind(kind)), 1)

(***************************************************************************)
(* Claims about several calls                                              *)
(***************************************************************************)

\* What the calls that are over, and the calls that have their result in
\* hand, produced for each cleaned text.
Produced ==
  log \cup {[text |-> frames[w].cleaned[1], report |-> frames[w].report,
             error |-> frames[w].error] :
              w \in {v \in DOMAIN frames : frames[v].pc \in {"returned", "raised"}}}

\* C17: for any sequence or interleaving of parse_report calls on any
\* documents, the report, or the classification failure, produced for a
\* cleaned text is the same whenever that text is parsed.
C17_SameTextSameOutcome ==
  \A r1, r2 \in Produced : r1.text = r2.text => r1 = r2

\* Three calls are over, two of them on the text that ties the three
\* sources, and the tie went to TransUnion.
C17_Witness ==
  /\ ncalls = MaxCalls /\ \A w \in DOMAIN frames : frames[w].pc = "idle"
  /\ Cardinality(log) = 2
  /\ \E r \in log :
       /\ _scores(r.text) = [b \in Bureau |-> 2]
       /\ r.report # NoReport /\ r.report[1].bureau = "transunion"
  /\ \E r \in log : r.error # NoError

(***************************************************************************)
(* Claims about the block loops                                            *)
(***************************************************************************)

AnchorLines == {j \in DOMAIN card_section : card_section[j] = CardAnchor(card_of)}
\* The k-th anchor line of the section, counted from the top.
AnchorAt(k) ==
  CHOOSE j \in AnchorLines : Cardinality({o \in AnchorLines : o <= j}) = k
LoopReturned == card_out # None

\* C21: each extractor emits exactly one Account per anchor line of the
\* accounts section, in the order of the anchors (the k-th account is the one
\* whose block holds the k-th anchor and ends right before the next), whatever
\* is missing or unparsable in a block; a section without an anchor line,
\* the empty one included, gives an empty list.
C21_OneAccountPerAnchor ==
  LoopReturned =>
    /\ Len(card_out[1]) = Cardinality(AnchorLines)
    /\ \A k \in DOMAIN card_out[1] :
         LET blk == card_out[1][k].raw_block
         IN /\ AnchorAt(k) \in blk[1]..blk[2]
            /\ blk[2] = IF k < Len(card_out[1]) THEN AnchorAt(k + 1) - 1
                        ELSE Len(card_section)
    /\ AnchorLines = {} => card_out[1] = <<>>

\* Two anchors, the first block holding only a balance that does not parse.
C21_Witness ==
  /\ LoopReturned
  /\ Cardinality(AnchorLines) = MaxCards
  /\ Len(card_out[1]) = MaxCards
  /\ card_section[AnchorAt(1) + 1] = "Balance: $."
  /\ AnchorAt(2) = AnchorAt(1) + 2
  /\ card_out[1][1].balance = None /\ card_out[1][1].credit_limit = None
\* A section with lines and no anchor.
C21_NoAnchorReached ==
  LoopReturned /\ card_section # <<>> /\ AnchorLines = {} /\ card_out[1] = <<>>

\* The lines of the k-th account: from its anchor to the line before the
\* next anchor; and the balance printed on them.
OwnLines(k) == SubSeq(card_section, AnchorAt(k), card_out[1][k].raw_block[2])
OwnBalance(k) ==
  LET bal == FirstLabelled(OwnLines(k), "balance")
  IN IF bal = None THEN None
     ELSE clamp_nonneg(_to_float(Some(RawCaptureOf(AmountAfterLabel(bal[1])))))
RawBlockLines(k) == card_out[1][k].raw_block[1]..card_out[1][k].raw_block[2]

\* C22: blocks are delimited by consecutive anchors: however close the anchor
\* lines are, no line of the section lies in the raw blocks of two accounts,
\* and the balance of an account is the one printed on its own lines, never
\* one printed for the account before it.
C22_BlocksDisjoint ==
  LoopReturned =>
    /\ \A k, l \in DOMAIN card_out[1] :
         k # l => RawBlockLines(k) \cap RawBlockLines(l) = {}
    /\ \A k \in DOMAIN card_out[1] : card_out[1][k].balance = OwnBalance(k)

\* What the TransUnion loop would read for the k-th account in its raw
\* block alone, the lines from the next anchor on left out.
RawBlockOf(k) ==
  SubSeq(card_section, card_out[1][k].raw_block[1], card_out[1][k].raw_block[2])
LimitInBlock(k) == TU_parse_account(TU_block_of(RawBlockOf(k), RawBlockOf(k))).credit_limit
HistoryInBlock(k) == TU_parse_payment_history(RawBlockOf(k))

\* C23: the TransUnion extractor reads every field of an account, its credit
\* limit and its payment-history rows included, in the account's own block,
\* on lines before the next account's anchor; what is printed under the
\* following account is never given to the current one.
C23_FieldsFromOwnBlock ==
  (LoopReturned /\ card_of = "transunion") =>
    \A k \in DOMAIN card_out[1] :
      /\ card_out[1][k].credit_limit = LimitInBlock(k)
      /\ card_out[1][k].payment_history = HistoryInBlock(k)

(***************************************************************************)
(* Claims about inquiry names, history tables and the aggregation step     *)
(***************************************************************************)

\* The name the rule gives the inquiry of line i: the text before the date on
\* the line, else the nearest non-empty line above it.
RuledName(i) ==
  IF NamePart(inq_section[i]) # "" THEN NamePart(inq_section[i])
  ELSE PreviousNonEmpty(inq_section, i - 1)
DatedLines ==
  {i \in DOMAIN inq_section :
     HasDateToken(inq_section[i]) /\ ParsedDate(inq_section[i]) # None}
InquiriesReturned == inquiries # None

\* C24: in every extractor's inquiry scan the inquiry of a line that holds a
\* date is named by the text before the date on that line and, when there is
\* none, by the nearest non-empty line above it; every emitted inquiry has
\* its name from the section in one of these two ways.
C24_NameBeforeDateElseLineAbove ==
  InquiriesReturned =>
    /\ \A k \in DOMAIN inquiries[1] :
         \E i \in DatedLines :
           /\ inquiries[1][k].name = RuledName(i)
           /\ Some(inquiries[1][k].date) = ParsedDate(inq_section[i])
    /\ \A i \in DatedLines :
         RuledName(i) # "" =>
           \E k \in DOMAIN inquiries[1] : inquiries[1][k].name = RuledName(i)

\* The rows of an account that carry a balance, and among them the ones with
\* the greatest month key.
RowsWithBalance(a) == {i \in DOMAIN a.payment_history : a.payment_history[i].balance # None}
NewestWithBalance(a) ==
  {i \in RowsWithBalance(a) :
     \A o \in RowsWithBalance(a) :
       KeyRank(a.payment_history[o].month) <= KeyRank(a.payment_history[i].month)}
\* The balances the rule lets a qualifying account contribute.
ContributedBalances(a) ==
  IF a.balance # None THEN {a.balance[1]}
  ELSE IF RowsWithBalance(a) = {} THEN {0}
  ELSE {a.payment_history[i].balance[1] : i \in NewestWithBalance(a)}

\* C25: compute_summary adds, for each qualifying account, its account-level
\* balance when there is one, else the balance of the row with the greatest
\* month key among its history rows that carry a balance, else 0.
C25_BalanceElseLatestHistory ==
  Aggregated =>
    \E f \in [Qualifying -> {0, 50, 80, 250}] :
      /\ \A i \in Qualifying : f[i] \in ContributedBalances(nreport.accounts[i])
      /\ Summary.total_revolving_balance = SumSet(Qualifying, f)

\* The newest row has no balance, an older one has: the older one counts.
C25_Witness ==
  /\ Aggregated
  /\ Qualifying = {1}
  /\ nreport.accounts[1].balance = None
  /\ nreport.accounts[1].payment_history =
       <<[month |-> "2024-01", balance |-> Some(80)], [month |-> "2024-02", balance |-> None]>>
  /\ Summary.total_revolving_balance = 80
\* The account-level balance wins over a history that carries balances.
C25_AccountBalanceWins ==
  /\ Aggregated
  /\ Qualifying = {1}
  /\ nreport.accounts[1].balance = Some(250)
  /\ RowsWithBalance(nreport.accounts[1]) # {}
  /\ Summary.total_revolving_balance = 250

\* C27: the aggregation step changes only the report's summary: the account
\* list with every account's fields and the order and content of every
\* payment_history list (duplicates included), the inquiries, the public
\* records, the bureau and the raw chunks are after it what they were before.
C27_OnlySummaryChanges ==
  [][(npc = "ready" /\ npc' = "done") =>
       /\ nreport'.accounts = nreport.accounts
       /\ nreport'.inquiries = nreport.inquiries
       /\ nreport'.public_records = nreport.public_records
       /\ nreport'.bureau = nreport.bureau
       /\ nreport'.raw_chunks = nreport.raw_chunks]_vars

\* Aggregated, with a history the balance scan went through whose rows stand
\* oldest first, and one whose rows are duplicates.
C27_Witness ==
  /\ Aggregated /\ nreport.summary # None
  /\ Qualifying = {1}
  /\ nreport.accounts[1].balance = None
  /\ nreport.accounts[1].payment_history =
       <<[month |-> "2024-01", balance |-> Some(50)], [month |-> "2024-02", balance |-> Some(80)]>>
  /\ Summary.total_revolving_balance = 80
  /\ nreport.inquiries = <<"inquiry">> /\ nreport.raw_chunks = <<"chunk">>

\* The first line of the table in the block (the line after its header; the
\* Equifax grid has none and takes the whole block), 0 when there is no table.
TableStart ==
  CASE tbl_of = "transunion" ->
         LET hdr == {j \in DOMAIN tbl_block : tbl_block[j] = TU_HISTORY_HDR}
         IN IF hdr = {} THEN 0 ELSE (CHOOSE j \in hdr : \A o \in hdr : j <= o) + 1
    [] tbl_of = "experian" -> EX_FirstRowLine(tbl_block)
    [] OTHER -> 1
\* The rows a well-formed line of the table stands for, none for another line.
WellFormedRows(l) ==
  CASE tbl_of = "transunion" -> IF TU_RowShape(l) = "row" THEN <<TU_RowOf(l)>> ELSE <<>>
    [] tbl_of = "experian" -> IF EX_RowShape(l) = "row" THEN <<EX_RowOf(l)>> ELSE <<>>
    [] OTHER ->
         IF EQ_YearOf(l) = None THEN <<>>
         ELSE EQ_grid_row(EQ_YearOf(l)[1], EQ_TokensOf(l),
                          IF _detect_months_header(tbl_block) = None THEN MONTHS_ABBR
                          ELSE _detect_months_header(tbl_block)[1], 1)
RECURSIVE RowsOfLines(_, _)
RowsOfLines(from, to) ==
  IF from > to THEN <<>>
  ELSE WellFormedRows(tbl_block[from]) \o RowsOfLines(from + 1, to)
\* An unparsable line that holds one of the parser's heading words.
HeadingWordLines ==
  {j \in DOMAIN tbl_block :
     /\ j >= TableStart
     /\ \/ tbl_of = "transunion" /\ TU_RowShape(tbl_block[j]) = "heading"
        \/ tbl_of = "experian" /\ EX_RowShape(tbl_block[j]) = "heading"}
TableEnd ==
  IF HeadingWordLines = {} THEN Len(tbl_block)
  ELSE (CHOOSE j \in HeadingWordLines : \A o \in HeadingWordLines : j <= o) - 1
TableReturned == tbl_out # None

\* C26 (as claimed): in every extractor's history table parser a row that
\* cannot be parsed is skipped and parsing continues: the rows returned are
\* the well-formed rows of the table, every one that follows an unparsable
\* row included; without a table the list is empty.
C26_UnparsableRowsSkipped ==
  TableReturned =>
    tbl_out[1] = IF TableStart = 0 THEN <<>>
                 ELSE RowsOfLines(TableStart, Len(tbl_block))

\* C26 (amended): a row that cannot be parsed is skipped and parsing
\* continues, except that in the TransUnion and Experian parsers an
\* unparsable line holding one of the parser's heading words ends the table:
\* the rows returned are the well-formed rows between the table's start and
\* the first such line; without a table the list is empty.
C26_SkippedUpToHeadingWord ==
  TableReturned =>
    tbl_out[1] = IF TableStart = 0 THEN <<>>
                 ELSE RowsOfLines(TableStart, TableEnd)

\* A well-formed row right after an unparsable one is returned.
C26_Witness ==
  /\ TableReturned
  /\ tbl_of = "experian"
  /\ tbl_block = <<BAL_HIST_HDR, EX_COLUMNS_HDR, "2024-06 n/a", "2024-07 $10 $0 Yes">>
  /\ tbl_out[1] = <<EX_RowOf("2024-07 $10 $0 Yes")>>
\* A heading word on an unparsable line ends the table.
C26_HeadingWordReached ==
  /\ TableReturned
  /\ tbl_of = "transunion"
  /\ tbl_block = <<TU_HISTORY_HDR, "2024-05 see Remarks", "2024-08 $120 $0 $120 OK">>
  /\ tbl_out[1] = <<>>
\* Rows without the table's header give an empty list.
C26_NoTableReached ==
  /\ TableReturned /\ TableStart = 0 /\ tbl_out[1] = <<>>
  /\ \E j \in DOMAIN tbl_block : WellFormedRows(tbl_block[j]) # <<>>

(***************************************************************************)
(* Claims about section spans and the cleaning pass                        *)
(***************************************************************************)

\* The span parse() computes for its k-th section, and the sections found.
SpanOfSection(k) ==
  _find_span(parse_of, parse_text, StartAnchor(parse_of, k), EndAnchors(parse_of, k))
FoundSections ==
  {k \in DOMAIN Anchors(parse_of) :
     SpanOfSection(k)[1] # NOT_FOUND /\ SpanOfSection(k)[1] < SpanOfSection(k)[2]}

\* C29: in one extractor run the spans of different sections are pairwise
\* disjoint, whatever order the headings stand in: no part of the text is
\* handed to two section parsers.
C29_SpansDisjoint ==
  Parsed =>
    \A k, l \in FoundSections :
      k # l => \/ SpanOfSection(k)[2] <= SpanOfSection(l)[1]
               \/ SpanOfSection(l)[2] <= SpanOfSection(k)[1]

CleanedOnce == txt_cleaned # None
CleanedTwice == txt_again # None

\* C28: for every full text extract_pdf_text builds, documents with empty or
\* whitespace-only pages included, the text clean_text returns holds no page
\* delimiter, no private-use glyph, no non-breaking space and no two
\* consecutive spaces or tabs.
C28_CleanedTextIsClean ==
  CleanedOnce =>
    LET s == txt_cleaned[1]
    IN /\ \A i \in DOMAIN s : s[i] \notin {PAGE_MARK, "PUA", "NBSP"}
       /\ \A i \in DOMAIN s : i < Len(s) => ~(IsBlank(s[i]) /\ IsBlank(s[i + 1]))

\* C30: clean_text is idempotent: the text the extractor parses after its own
\* cleaning pass is the cleaned text the classifier scored.
C30_CleanTextIdempotent ==
  CleanedTwice => txt_again[1] = txt_cleaned[1]

====
